---- MODULE Spec2Model ----
(***************************************************************************)
(* A model of the APN-Repository C core:                                   *)
(*   c_src/check_lin_eq_2x_uniform_3to1.c  canonical-triplicate check and  *)
(*                                         linear-equivalence search       *)
(*   c_src/invariants_computations.cpp     k-to-1, algebraic degree        *)
(* The process is single threaded.  One public entry point runs at a time; *)
(* its loops and its recursion are unfolded into steps, one action each.   *)
(***************************************************************************)
EXTENDS Integers, Sequences, FiniteSets, TLC

(***************************************************************************)
(* Bounds of the model.                                                    *)
(***************************************************************************)
\* how many canonical triplicates of dimension 4 (taken from CTOutputs) are
\* offered as arguments
NumCT == 4
\* how many of them serve as the base of the perturbed truth tables given
\* to is_canonical_triplicate_c
NumBase == 2
\* how many Boolean functions of three variables (by index of their truth
\* table) are given to the invariant suite in dimension 3
NumBool3 == 128

(***************************************************************************)
(* Machine arithmetic on unsigned long / uint32_t.  Every value of the     *)
(* model stays below 2^21, so no operation reaches the word width.         *)
(***************************************************************************)
RECURSIVE BitXor(_, _)
BitXor(a, b) ==
    IF a = 0 THEN b
    ELSE IF b = 0 THEN a
    ELSE ((a + b) % 2) + 2 * BitXor(a \div 2, b \div 2)

RECURSIVE BitAnd(_, _)
BitAnd(a, b) ==
    IF a = 0 \/ b = 0 THEN 0
    ELSE ((a % 2) * (b % 2)) + 2 * BitAnd(a \div 2, b \div 2)

RECURSIVE Shl1(_)
Shl1(k) == IF k = 0 THEN 1 ELSE 2 * Shl1(k - 1)

RECURSIVE PopCount(_)
PopCount(a) == IF a = 0 THEN 0 ELSE (a % 2) + PopCount(a \div 2)

\* a ^ b, by table for the small operands of the search
XorSmall == [a \in 0..31 |-> [b \in 0..31 |-> BitXor(a, b)]]
Xor(a, b) == IF a < 32 /\ b < 32 THEN XorSmall[a][b] ELSE BitXor(a, b)

Zeros(len) == [q \in 0..(len - 1) |-> 0]

(***************************************************************************)
(* Finite-field routines.                                                  *)
(***************************************************************************)
pps ==
    << 7, 11, 19, 37, 91, 131, 285, 529, 1135, 2053,
       4331, 8219, 16553, 32821, 65581, 131081, 267267, 524327, 1050355 >>

\* line 45: dimension < 2 taken as dimension < 3
get_primitive_polynomial_from_three(dimension) ==
    IF dimension < 3 \/ dimension > 50 THEN 0
    ELSE pps[dimension - 1]
get_primitive_polynomial(dimension) ==
    IF dimension < 2 \/ dimension > 50 THEN 0
    ELSE pps[dimension - 1]

RECURSIVE ff_loop(_, _, _, _, _)
ff_loop(a, b, result, pp, cutoff) ==
    IF a = 0 \/ b = 0 THEN result
    ELSE ff_loop(IF BitAnd(a, cutoff) # 0 THEN BitXor(2 * a, pp) ELSE 2 * a,
                 b \div 2,
                 IF b % 2 = 1 THEN BitXor(result, a) ELSE result,
                 pp, cutoff)

\* line 62: cutoff = 1UL << (dimension - 1)
ff_multiply_wide(a, b, pp, dimension) == ff_loop(a, b, 0, pp, Shl1(dimension))
ff_multiply(a, b, pp, dimension) == ff_loop(a, b, 0, pp, Shl1(dimension - 1))

betas == << 6, 14, 214, 42, 3363, 16363, 44234, 245434, 476308 >>

get_beta(n) ==
    IF n < 4 \/ n > 20 \/ n % 2 # 0 THEN 0
    ELSE betas[((n - 4) \div 2) + 1]

(***************************************************************************)
(* Truth tables.  A vbf_tt* argument is a record: null (the pointer is     *)
(* NULL), dim (vbf_tt_dimension), nent (vbf_tt_number_of_entries) and vals *)
(* (vbf_tt_values, indexed from 0).                                        *)
(***************************************************************************)
n4 == 4
N4 == Shl1(n4)

NullTT == [null |-> TRUE, dim |-> 0, nent |-> 0, vals |-> << >>]
MkTT(d, v) == [null |-> FALSE, dim |-> d, nent |-> Shl1(d), vals |-> v]

\* GF(2)[x] arithmetic written from the definition: the carry-less product
\* and its remainder modulo the polynomial P of degree n
RECURSIVE ClMul(_, _)
ClMul(a, b) ==
    IF b = 0 THEN 0
    ELSE BitXor(IF b % 2 = 1 THEN a ELSE 0, 2 * ClMul(a, b \div 2))

RECURSIVE Degree(_)
Degree(v) == IF v <= 1 THEN 0 ELSE 1 + Degree(v \div 2)

RECURSIVE PolyMod(_, _, _)
PolyMod(v, P, n) ==
    IF v < Shl1(n) THEN v
    ELSE PolyMod(BitXor(v, P * Shl1(Degree(v) - n)), P, n)

GFMul(a, b, P, n) == PolyMod(ClMul(a, b), P, n)

\* the field of dimension 4 used by the properties: P(4) = 19, beta = 6
P4 == 19
Beta4 == 6
BetaMul4(i) == GFMul(i, Beta4, P4, n4)

\* the five triples {i, i*beta, i ^ i*beta} of dimension 4, by smallest member
TripleOf(i) == {i, BetaMul4(i), BitXor(i, BetaMul4(i))}
MinOf(S) == CHOOSE m \in S : \A q \in S : m <= q
Leaders4 == {i \in 1..(N4 - 1) : i = MinOf(TripleOf(i))}
LeaderRank(i) == Cardinality({l \in Leaders4 : l < MinOf(TripleOf(i))}) + 1

\* the 3-to-1 function that sends the r-th triple to outs[r]
FromOutputs(outs) ==
    [x \in 0..(N4 - 1) |-> IF x = 0 THEN 0 ELSE outs[LeaderRank(x)]]

\* output rows of canonical triplicates of dimension 4: x^3; a function
\* whose image spans a proper subspace; two equivalent functions of a second
\* class; a function equivalent to x^3; a function of a third class
CTOutputs ==
    << <<1, 8, 15, 12, 10>>, <<1, 2, 3, 4, 5>>,  <<1, 2, 4, 8, 3>>,
       <<1, 2, 3, 4, 8>>,    <<1, 2, 4, 8, 15>>, <<1, 2, 4, 8, 7>> >>

CTFun(k) == MkTT(n4, FromOutputs(CTOutputs[k]))

\* arguments of is_canonical_triplicate_c: every base function with one
\* entry, or one whole triple, set to any value of 0..N4 (N4 itself is the
\* out-of-range value), or with two entries exchanged; tables of unsupported
\* dimensions, NULL, and a table with no entries
PerturbEntry(F, p, v) == [F EXCEPT !.vals[p] = v]
PerturbTriple(F, l, v) ==
    [F EXCEPT !.vals = [x \in 0..(N4 - 1) |->
                           IF x \in TripleOf(l) THEN v ELSE F.vals[x]]]

\* F with the values at p and q exchanged: the multiset of outputs is kept
SwapEntries(F, p, q) ==
    [F EXCEPT !.vals[p] = F.vals[q], !.vals[q] = F.vals[p]]

BadDims == {2, 3, 5}

CTInputs ==
    {SwapEntries(CTFun(k), pq[1], pq[2]) :
        k \in 1..NumBase, pq \in {w \in (1..(N4 - 1)) \X (1..(N4 - 1)) : w[1] < w[2]}}
    \cup {PerturbEntry(CTFun(k), p, v) : k \in 1..NumBase, p \in 0..(N4 - 1), v \in 0..N4}
    \cup {PerturbTriple(CTFun(k), l, v) : k \in 1..NumBase, l \in Leaders4, v \in 0..N4}
    \cup {MkTT(d, Zeros(Shl1(d))) : d \in BadDims}
    \cup {NullTT, [null |-> FALSE, dim |-> n4, nent |-> 0, vals |-> << >>]}

(***************************************************************************)
(* State.                                                                  *)
(***************************************************************************)
VARIABLES
    pc,            \* where the process is: "idle", "ct_begin", "ct_loop",
                   \* "search", "crashed"
    entry,         \* the public entry point running, or last run
    argF, argG,    \* its arguments
    ret,           \* the value the last completed call returned
    g_equivalent,  \* static bool g_equivalent
    ct,            \* locals of is_canonical_triplicate_internal
    Ft, Gt,        \* the triplicate structures (T.t, T.ol and their state)
    stk,           \* activation records of the search, outermost first
    xgs,           \* the x guess sequence, shared by every frame
    oob,           \* an array was read or written outside its bounds
    heap,          \* the arrays of the search that are allocated, and
                   \* whether a release or an allocation went wrong
    entryFlag,     \* g_equivalent as the running call found it
    flagWrites,    \* writes of true to g_equivalent by the running call
    searched,      \* the running call entered the search
    swapRet        \* what the previous call returned, if it was this call
                   \* with its arguments exchanged

vars == << pc, entry, argF, argG, ret, g_equivalent, ct, Ft, Gt, stk, xgs,
           oob, heap, entryFlag, flagWrites, searched, swapRet >>

NoT == [st |-> "uninit", N |-> 0, tN |-> 0, t |-> << >>, ol |-> << >>]
NoCt == [who |-> "-", i |-> 0, j |-> 0, c |-> << >>]

\* heap.live: the arrays allocated and not yet released, each named by the
\* depth of the frame whose local points to it and by that local;
\* heap.lost: a local was given a new array while it still pointed to a
\* live one; heap.twice: free() of an array that is not live
NoHeap == [live |-> {}, lost |-> FALSE, twice |-> FALSE]

malloc(h, depth, locals) ==
    LET ids == {<< depth, l >> : l \in locals}
    IN  [h EXCEPT !.live = @ \cup ids, !.lost = @ \/ (ids \cap h.live # {})]

free(h, depth, locals) ==
    LET ids == {<< depth, l >> : l \in locals}
    IN  [h EXCEPT !.live = @ \ ids, !.twice = @ \/ ~(ids \subseteq h.live)]

\* lines 615-629: the arrays of test_triplicate_linear_equivalence
TopBuffers == {"L1.x", "L1.y", "L2.x", "L2.y", "fgs", "xgs"}
\* lines 566-574: the arrays of one turn of assignF
AssignBuffers == {"l1.x", "l1.y", "l2.x", "l2.y", "fgss"}
\* lines 332-334: the arrays of guess when it derives the rows
GuessDerivedBuffers == {"l2.x", "l2.y", "fgss"}
\* lines 362-364 and 381-382: the arrays of one turn of the loop of guess
GuessTurnBuffers == {"l1.x", "l1.y", "fgss"}
GuessCallBuffers == {"l2.x", "l2.y"}

InitCommon ==
    /\ pc = "idle"
    /\ entry = "none"
    /\ argF = NullTT
    /\ argG = NullTT
    /\ ret = FALSE
    /\ g_equivalent = FALSE
    /\ ct = NoCt
    /\ Ft = NoT
    /\ Gt = NoT
    /\ stk = << >>
    /\ xgs = << >>
    /\ oob = FALSE
    /\ heap = NoHeap
    /\ entryFlag = FALSE
    /\ flagWrites = 0
    /\ searched = FALSE
    /\ swapRet = "none"

(***************************************************************************)
(* Leaving an entry point.                                                 *)
(***************************************************************************)
\* a triplicate whose two arrays have been passed to free()
FreedT == [st |-> "freed", N |-> 0, tN |-> 0, t |-> << >>, ol |-> << >>]

\* arrays still allocated when the local triplicate that points to them
\* goes out of scope: nothing can reach or free them any more
LeakedT == [st |-> "leaked", N |-> 0, tN |-> 0, t |-> << >>, ol |-> << >>]
AtExit(T) == IF T.st = "alloc" THEN LeakedT ELSE T

\* the running entry point returns r; ft and gt are what became of Ft, Gt
Return(r, ft, gt) ==
    /\ pc' = "idle"
    /\ ret' = r
    /\ Ft' = AtExit(ft)
    /\ Gt' = AtExit(gt)
    /\ ct' = NoCt
    /\ stk' = << >>
    /\ xgs' = << >>

\* free() of a pointer that was never set (or was freed already) has no
\* defined behaviour: the process aborts, or it goes on
Crash ==
    /\ pc' = "crashed"
    /\ UNCHANGED << ret, Ft, Gt, ct, stk, xgs >>

\* delete_triplicate_from_memory(T) for each T of ts in turn, then return r
ReturnAfterDelete(r, ft, gt, delF, delG) ==
    LET badF == delF /\ ft.st # "alloc"
        badG == delG /\ gt.st # "alloc"
        ft1 == IF delF /\ ~badF THEN FreedT ELSE ft
        gt1 == IF delG /\ ~badG THEN FreedT ELSE gt
    IN  \/ Return(r, ft1, gt1)
        \/ (badF \/ badG) /\ Crash

(***************************************************************************)
(* is_canonical_triplicate_internal(F, &T): lines 138-210.                 *)
(***************************************************************************)
CurTT == IF ct.who = "G" THEN argG ELSE argF
CurT == IF ct.who = "G" THEN Gt ELSE Ft

\* an activation record of the search: the function, where it stands, the
\* arrays its parameters L1, L2 and fgs point to, and its scalars
Frame(fn, at, L1, L2, fgs, f, g, xymc, px, cfg) ==
    [fn |-> fn, at |-> at, L1 |-> L1, L2 |-> L2, fgs |-> fgs,
     f |-> f, g |-> g, xymc |-> xymc, px |-> px, cfg |-> cfg, pf |-> 0]

ZeroLin(N) == [y |-> Zeros(N), x |-> Zeros(N)]

\* lines 610-629 of test_triplicate_linear_equivalence: its zeroed arrays
\* and scalars; first with px = 1
TopFrameLevelOne(N) ==
    Frame("top", "loop", ZeroLin(N), ZeroLin(N), Zeros(2 * N), 0, 0, 0, 1, 0)
TopFrame(N) ==
    Frame("top", "loop", ZeroLin(N), ZeroLin(N), Zeros(2 * N), 0, 0, 0, 0, 0)

\* the flag left as the earlier calls set it
keep_flag(old) == old

\* line 701: g_equivalent = false
reset_flag(old) == FALSE

\* what the caller of is_canonical_triplicate_internal does with its result
\* res, T1 being the triplicate the call leaves behind:
\*   is_canonical_triplicate_c, lines 672-677
\*   check_lin_eq_2x_uniform_3to1, lines 691-702
CT_Return(res, T1) ==
    CASE entry = "is_ct" ->
            /\ Return(res, IF res THEN FreedT ELSE T1, Gt)
            /\ UNCHANGED << g_equivalent, searched, heap >>
      [] entry = "lin_eq" /\ ct.who = "F" ->
            IF res
            THEN /\ Ft' = T1
                 /\ ct' = [who |-> "G", i |-> 0, j |-> 0, c |-> << >>]
                 /\ pc' = "ct_begin"
                 /\ UNCHANGED << ret, Gt, stk, xgs, g_equivalent, searched, heap >>
            ELSE /\ ReturnAfterDelete(FALSE, T1, Gt, TRUE, FALSE)
                 /\ UNCHANGED << g_equivalent, searched, heap >>
      [] entry = "lin_eq" /\ ct.who = "G" ->
            IF res
            THEN /\ Gt' = T1
                 /\ g_equivalent' = reset_flag(g_equivalent)
                 /\ searched' = TRUE
                 /\ stk' = << TopFrame(argF.nent) >>
                 /\ xgs' = Zeros(argF.nent)
                 /\ heap' = malloc(heap, 1, TopBuffers)
                 /\ ct' = NoCt
                 /\ pc' = "search"
                 /\ UNCHANGED << ret, Ft >>
            ELSE /\ ReturnAfterDelete(FALSE, Ft, T1, TRUE, TRUE)
                 /\ UNCHANGED << g_equivalent, searched, heap >>

\* lines 140-169: the dimension and F(0) tests, then the allocations
CT_Begin ==
    /\ pc = "ct_begin"
    /\ LET F == CurTT
           tN == (F.nent - 1) \div 3
       IN  IF F.dim < 4 \/ F.dim > 20 \/ F.dim % 2 # 0
           THEN CT_Return(FALSE, CurT)
           ELSE IF F.vals[0] # 0
           THEN CT_Return(FALSE, CurT)
           ELSE /\ IF ct.who = "G"
                   THEN /\ Gt' = [st |-> "alloc", N |-> F.nent, tN |-> tN,
                                  t |-> Zeros(4 * tN), ol |-> Zeros(F.nent)]
                        /\ UNCHANGED Ft
                   ELSE /\ Ft' = [st |-> "alloc", N |-> F.nent, tN |-> tN,
                                  t |-> Zeros(4 * tN), ol |-> Zeros(F.nent)]
                        /\ UNCHANGED Gt
                /\ ct' = [ct EXCEPT !.i = 1, !.j = 0,
                             !.c = [q \in 0..(F.nent - 1) |-> IF q = 0 THEN 0 ELSE 1]]
                /\ pc' = "ct_loop"
                /\ UNCHANGED << ret, stk, xgs, g_equivalent, searched, heap >>
    /\ UNCHANGED << entry, argF, argG, oob, entryFlag, flagWrites, swapRet >>

\* lines 193-194 with the second comparison left out
TripleClosedFirstOnly(F, v, k, ki) == F.vals[k] = v

\* lines 193-194: the other two members of the triple carry the same output
TripleClosed(F, v, k, ki) == F.vals[k] = v /\ F.vals[ki] = v

\* what an access to T.ol outside the array can do: find a zero word, find
\* a nonzero word, or fault
OobOutcomes == {"zero", "nonzero", "fault"}

\* lines 172-205, one pass of the loop body for an unvisited i.  T.ol has
\* T.N entries: for F(i) >= T.N the read of line 178 is outside the array
\* and yields r, and the write of line 183 lands outside it too
CT_Body(F, T, c, i, j, r) ==
    LET v == F.vals[i]
        inb == v < T.N
        olv == IF inb THEN T.ol[v] ELSE IF r = "zero" THEN 0 ELSE 1
        k == ff_multiply(i, get_beta(F.dim), get_primitive_polynomial(F.dim), F.dim)
        ki == Xor(k, i)
        T1 == [T EXCEPT !.ol = IF inb THEN [@ EXCEPT ![v] = j + 1] ELSE @,
                        !.t = [@ EXCEPT ![j] = v, ![T.tN + j] = i]]
        c1 == [c EXCEPT ![i] = 0]
        T2 == [T1 EXCEPT !.t = [@ EXCEPT ![(2 * T.tN) + j] = k, ![(3 * T.tN) + j] = ki]]
        c2 == [c1 EXCEPT ![k] = 0, ![ki] = 0]
    IN  IF v = 0
        THEN [ok |-> FALSE, T |-> T, c |-> c, j |-> j, oob |-> FALSE]
        ELSE IF olv # 0
        THEN [ok |-> FALSE, T |-> T, c |-> c, j |-> j, oob |-> ~inb]
        ELSE IF ~TripleClosed(F, v, k, ki)
        THEN [ok |-> FALSE, T |-> T1, c |-> c1, j |-> j, oob |-> ~inb]
        ELSE [ok |-> TRUE, T |-> T2, c |-> c2, j |-> j + 1, oob |-> ~inb]

\* one iteration of the for loop of line 171
CT_Iter ==
    /\ pc = "ct_loop"
    /\ ct.i < CurTT.nent
    /\ IF ct.c[ct.i] = 0
       THEN /\ ct' = [ct EXCEPT !.i = @ + 1]
            /\ UNCHANGED << pc, ret, Ft, Gt, stk, xgs, g_equivalent, searched, oob, heap >>
       ELSE \E r \in (IF CurTT.vals[ct.i] = 0 \/ CurTT.vals[ct.i] < CurT.N
                     THEN {"zero"} ELSE OobOutcomes) :
              LET b == CT_Body(CurTT, CurT, ct.c, ct.i, ct.j, r)
              IN  /\ oob' = (oob \/ b.oob)
                  /\ IF b.oob /\ r = "fault"
                     THEN Crash /\ UNCHANGED << g_equivalent, searched, heap >>
                     ELSE IF b.ok
                     THEN /\ ct' = [ct EXCEPT !.i = @ + 1, !.j = b.j, !.c = b.c]
                          /\ IF ct.who = "G"
                             THEN Gt' = b.T /\ UNCHANGED Ft
                             ELSE Ft' = b.T /\ UNCHANGED Gt
                          /\ UNCHANGED << pc, ret, stk, xgs, g_equivalent, searched, heap >>
                     ELSE CT_Return(FALSE, b.T)
    /\ UNCHANGED << entry, argF, argG, entryFlag, flagWrites, swapRet >>

\* lines 208-209: the loop is over, the function is a canonical triplicate
CT_End ==
    /\ pc = "ct_loop"
    /\ ct.i >= CurTT.nent
    /\ CT_Return(TRUE, CurT)
    /\ UNCHANGED << entry, argF, argG, oob, entryFlag, flagWrites, swapRet >>

(***************************************************************************)
(* bool is_canonical_triplicate_c(vbf_tt *F): lines 667-678.               *)
(***************************************************************************)
Call_is_canonical_triplicate_c(F) ==
    /\ pc = "idle"
    /\ entry' = "is_ct"
    /\ argF' = F
    /\ argG' = NullTT
    /\ oob' = FALSE
    /\ entryFlag' = g_equivalent
    /\ flagWrites' = 0
    /\ searched' = FALSE
    /\ swapRet' = "none"
    /\ UNCHANGED << g_equivalent, heap >>
    /\ IF F.null \/ F.nent = 0
       THEN Return(FALSE, NoT, NoT)
       ELSE /\ pc' = "ct_begin"
            /\ ct' = [who |-> "F", i |-> 0, j |-> 0, c |-> << >>]
            /\ Ft' = NoT
            /\ Gt' = NoT
            /\ UNCHANGED << ret, stk, xgs >>

CallCT == \E F \in CTInputs : Call_is_canonical_triplicate_c(F)

NextCT == CallCT \/ CT_Begin \/ CT_Iter \/ CT_End

SpecCT == InitCommon /\ [][NextCT]_vars

(***************************************************************************)
(* The search: lines 238-661.  A linear is the record [y, x] of its two    *)
(* arrays; fgs is one array of 2N entries, the guesses in 0..N-1 and their *)
(* flags in N..2N-1.  The arrays are passed by pointer: an operator that   *)
(* models a callee returns the arrays as the callee leaves them.           *)
(***************************************************************************)
\* L.y[u] = v; L.x[v] = u;
SetLin(L, u, v) == [y |-> [L.y EXCEPT ![u] = v], x |-> [L.x EXCEPT ![v] = u]]

\* a store to arr[i]; a store outside the array does not change the array
Put(arr, i, v) == IF i \in DOMAIN arr THEN [arr EXCEPT ![i] = v] ELSE arr

\* the number of leading nonzero guesses: while(fgs[b] != 0) b++
CountGuesses(fgs) == MinOf({b \in DOMAIN fgs : fgs[b] = 0})

\* lines 256 and 279: both values are outputs of their function
both_are_outputs(T1, T2, f, gv) == T1.ol[f] # 0 /\ T2.ol[gv] # 0

\* lines 262 and 285: neither value is an output of its function
neither_is_output(T1, T2, f, gv) == T1.ol[f] = 0 /\ T2.ol[gv] = 0

\* lines 250-270 (and 273-293): the pair (i, j) of check; st carries ok
\* (no return false so far), the linear l1, fgs and k; first without the
\* three return false
check_pair_unchecked(T1, T2, N, st, i, j) ==
    LET f == Xor(st.fgs[i], st.fgs[j])
        gv == Xor(st.l1.y[st.fgs[i]], st.l1.y[st.fgs[j]])
        add == [st EXCEPT !.fgs = [@ EXCEPT ![st.k] = f],
                          !.k = @ + 1,
                          !.l1 = SetLin(@, f, gv)]
    IN  IF st.l1.y[f] = 0 /\ f # 0
        THEN IF both_are_outputs(T1, T2, f, gv) THEN add
             ELSE [add EXCEPT !.fgs = [@ EXCEPT ![N + st.k] = 1]]
        ELSE st
check_pair(T1, T2, N, st, i, j) ==
    LET f == Xor(st.fgs[i], st.fgs[j])
        gv == Xor(st.l1.y[st.fgs[i]], st.l1.y[st.fgs[j]])
        bad == [st EXCEPT !.ok = FALSE]
        add == [st EXCEPT !.fgs = [@ EXCEPT ![st.k] = f],
                          !.k = @ + 1,
                          !.l1 = SetLin(@, f, gv)]
        addFlagged == [add EXCEPT !.fgs = [@ EXCEPT ![N + st.k] = 1]]
    IN  IF (f = 0 /\ gv # 0) \/ (gv = 0 /\ f # 0) THEN bad
        ELSE IF st.l1.x[gv] # 0 /\ st.l1.x[gv] # f THEN bad
        ELSE IF st.l1.y[f] # 0 /\ st.l1.y[f] # gv THEN bad
        ELSE IF st.l1.y[f] = 0 /\ f # 0
        THEN IF both_are_outputs(T1, T2, f, gv) THEN add
             ELSE IF neither_is_output(T1, T2, f, gv) THEN addFlagged
             ELSE bad
        ELSE st

\* the loops over j of lines 249 and 272, for j in [j, hi).  The range is
\* halved, so that the evaluation stays shallow: the pairs are still taken
\* in increasing order of j and none is taken after a return false.  The
\* state is bound to a value before it is used.
RECURSIVE check_j(_, _, _, _, _, _, _)
check_j(T1, T2, N, st, i, j, hi) ==
    LET mid == (j + hi) \div 2
        from(s) ==
            IF ~s.ok \/ j >= hi THEN s
            ELSE IF hi - j = 1 THEN check_pair(T1, T2, N, s, i, j)
            ELSE check_j(T1, T2, N, check_j(T1, T2, N, s, i, j, mid), i, mid, hi)
    IN  CHOOSE r \in {from(s) : s \in {st}} : TRUE

\* one pass of the loop over i of line 248: n is k as the pass finds it
check_pass(T1, T2, N, st, i, b) ==
    check_j(T1, T2, N, check_j(T1, T2, N, st, i, 0, i), i, b, st.k)

\* the loop over i of line 248, for i in [i, hi), halved in the same way
RECURSIVE check_i(_, _, _, _, _, _, _)
check_i(T1, T2, N, st, i, hi, b) ==
    LET mid == (i + hi) \div 2
        from(s) ==
            IF ~s.ok \/ i >= hi THEN s
            ELSE IF hi - i = 1 THEN check_pass(T1, T2, N, s, i, b)
            ELSE check_i(T1, T2, N, check_i(T1, T2, N, s, i, mid, b), mid, hi, b)
    IN  CHOOSE r \in {from(s) : s \in {st}} : TRUE

\* check(F, G, Ft, Gt, L1, fgs, a): lines 238-299
check(T1, T2, N, l1, fgs, a) ==
    LET b == CountGuesses(fgs)
    IN  check_i(T1, T2, N, [ok |-> TRUE, l1 |-> l1, fgs |-> fgs, k |-> b], a, b, b)

\* the nine pairings of lines 416-448, in the order of the code: member ai
\* of the new triple with member ij of the old one
CombineOrder ==
    << <<0, 0>>, <<1, 1>>, <<2, 2>>, <<0, 1>>, <<1, 2>>, <<2, 0>>,
       <<0, 2>>, <<1, 0>>, <<2, 1>> >>

\* lines 416-435 for one i: the nine stores to L2, one after the other
RECURSIVE combine_l2(_, _, _, _, _)
combine_l2(L2, x, a, i, q) ==
    LET from(l) ==
            IF q > Len(CombineOrder) THEN l
            ELSE LET u == x[a + CombineOrder[q][1]]
                     w == x[i + CombineOrder[q][2]]
                     v == Xor(l.y[u], l.y[w])
                     Ly == [l.y EXCEPT ![Xor(u, w)] = v]
                 IN  combine_l2([y |-> Ly, x |-> [l.x EXCEPT ![v] = Xor(u, w)]],
                                x, a, i, q + 1)
    IN  CHOOSE r \in {from(l) : l \in {L2}} : TRUE

\* lines 438-448 for one i: the nine stores to xgs
RECURSIVE combine_xgs(_, _, _, _, _)
combine_xgs(x, a, b, i, q) ==
    LET from(z) ==
            IF q > Len(CombineOrder) THEN z
            ELSE combine_xgs(
                     Put(z, b + (3 * i) + (q - 1),
                         Xor(z[a + CombineOrder[q][1]], z[i + CombineOrder[q][2]])),
                     a, b, i, q + 1)
    IN  CHOOSE r \in {from(z) : z \in {x}} : TRUE

RECURSIVE combine_from(_, _, _, _)
combine_from(L2, x, a, i) ==
    LET from(l, z) ==
            IF i >= a THEN [l2 |-> l, xgs |-> z]
            ELSE combine_from(combine_l2(l, z, a, i, 1),
                              combine_xgs(z, a, a + 3, i, 1), a, i + 3)
    IN  CHOOSE r \in {from(l, z) : l \in {L2}, z \in {x}} : TRUE

\* combine(L2, xgs, px): lines 408-452
combine(L2, x, px) == combine_from(L2, x, Shl1(2 * px) - 1, 0)

\* lines 469-487: one pass of the loop of generateF; first without the
\* flag of line 483 on a generated value
generate_body_unflagged(F, G, L2, x, N, st, i) ==
    LET g == G.vals[x[i]]
        f == F.vals[L2.y[x[i]]]
        hit == {k \in 0..(st.n - 1) : st.fgs[k] = f}
    IN  IF (f = 0 /\ g # 0) \/ (g = 0 /\ f # 0) THEN [st EXCEPT !.ok = FALSE]
        ELSE IF st.l1.x[g] # 0 /\ st.l1.x[g] # f THEN [st EXCEPT !.ok = FALSE]
        ELSE IF st.l1.y[f] # 0 /\ st.l1.y[f] # g THEN [st EXCEPT !.ok = FALSE]
        ELSE IF st.l1.y[f] # 0
        THEN IF hit = {} THEN st
             ELSE [st EXCEPT !.fgs = [@ EXCEPT ![N + MinOf(hit)] = 1]]
        ELSE [st EXCEPT !.fgs = [@ EXCEPT ![st.n] = f],
                        !.n = @ + 1,
                        !.l1 = SetLin(@, f, g)]
generate_body(F, G, L2, x, N, st, i) ==
    LET g == G.vals[x[i]]
        f == F.vals[L2.y[x[i]]]
        hit == {k \in 0..(st.n - 1) : st.fgs[k] = f}
    IN  IF (f = 0 /\ g # 0) \/ (g = 0 /\ f # 0) THEN [st EXCEPT !.ok = FALSE]
        ELSE IF st.l1.x[g] # 0 /\ st.l1.x[g] # f THEN [st EXCEPT !.ok = FALSE]
        ELSE IF st.l1.y[f] # 0 /\ st.l1.y[f] # g THEN [st EXCEPT !.ok = FALSE]
        ELSE IF st.l1.y[f] # 0
        THEN IF hit = {} THEN st
             ELSE [st EXCEPT !.fgs = [@ EXCEPT ![N + MinOf(hit)] = 1]]
        ELSE [st EXCEPT !.fgs = [@ EXCEPT ![st.n] = f, ![N + st.n] = 1],
                        !.n = @ + 1,
                        !.l1 = SetLin(@, f, g)]

RECURSIVE generate_from(_, _, _, _, _, _, _, _)
generate_from(F, G, L2, x, N, st, i, b) ==
    LET from(s) ==
            IF ~s.ok \/ i >= b THEN s
            ELSE generate_from(F, G, L2, x, N,
                               generate_body(F, G, L2, x, N, s, i), i + 3, b)
    IN  CHOOSE r \in {from(s) : s \in {st}} : TRUE

\* generateF(F, G, L1, L2, fgs, xgs, px): lines 455-491; a is the value
\* returned, l1 and fgs the arrays as it leaves them
generateF(F, G, l1, L2, fgs, x, px) ==
    LET j == CountGuesses(fgs)
        st == generate_from(F, G, L2, x, F.nent,
                            [ok |-> TRUE, l1 |-> l1, fgs |-> fgs, n |-> j],
                            Shl1(2 * px) + 2, Shl1(2 * (px + 1)) - 1)
    IN  [a |-> IF st.ok THEN j ELSE 0, l1 |-> st.l1, fgs |-> st.fgs]

\* the same order of the preimages whatever cfg and xymc
ConfigPermFixed(xymc, cfg) == << 1, 2, 3 >>

\* the permutation of the three preimages chosen by cfg and xymc
ConfigPerm(xymc, cfg) ==
    IF cfg = 1
    THEN << <<1, 2, 3>>, <<2, 3, 1>>, <<3, 1, 2>> >>[xymc + 1]
    ELSE << <<2, 1, 3>>, <<3, 2, 1>>, <<1, 3, 2>> >>[xymc + 1]

\* configure(Ft, Gt, L2, f, g, xymc, cfg): lines 494-555
configure(T1, T2, L2, f, g, xymc, cfg) ==
    LET pm == ConfigPerm(xymc, cfg)
        gp(q) == T2.t[(q * T2.tN) + g]
        fp(q) == T1.t[(pm[q] * T1.tN) + f]
    IN  IF xymc > 2 THEN L2
        ELSE SetLin(SetLin(SetLin(L2, gp(1), fp(1)), gp(2), fp(2)), gp(3), fp(3))

(***************************************************************************)
(* The search as steps.  stk holds the activation records, the running one *)
(* last.  A step runs one function from where it stands to its next call   *)
(* or return.  L1 and fgs are only read through the pointers a callee      *)
(* receives, so a frame holds them as they were at the call; assignF       *)
(* writes its caller's L2 (configure), which the frame carries and hands   *)
(* back on return; xgs is one array shared by all.                         *)
(***************************************************************************)
Depth == Len(stk)
Top == stk[Depth]
Running(fn, at) == pc = "search" /\ Depth > 0 /\ Top.fn = fn /\ Top.at = at

SearchUnchanged == UNCHANGED << entry, argF, argG, entryFlag, searched, swapRet >>
StayInSearch == UNCHANGED << pc, ret, Ft, Gt, ct >>

ReplaceTop(fr) == [stk EXCEPT ![Depth] = fr]
Call(fr, callee) == Append(ReplaceTop(fr), callee)

\* return from assignF: its caller sees the L2 that configure wrote, when
\* that caller still uses the array (test_triplicate_linear_equivalence
\* does; guess frees its copy)
ReturnFromAssign ==
    LET below == SubSeq(stk, 1, Depth - 1)
    IN  IF below[Depth - 1].fn = "top"
        THEN [below EXCEPT ![Depth - 1].L2 = Top.L2]
        ELSE below

ReturnFromGuess == SubSeq(stk, 1, Depth - 1)

\* xgs[n], xgs[n+1], xgs[n+2] = the three preimages of row g of T
StoreTriple(x, n, T, g) ==
    Put(Put(Put(x, n, T.t[T.tN + g]), n + 1, T.t[(2 * T.tN) + g]),
        n + 2, T.t[(3 * T.tN) + g])

\* lines 632-646: the root guess L1(Ft(0)) = Gt(g_), and the first assignF
Search_Root ==
    /\ Running("top", "loop")
    /\ Top.g < Gt.tN
    /\ LET N == argF.nent
           L1 == SetLin(Top.L1, Ft.t[Top.f], Gt.t[Top.g])
           fgs == [Top.fgs EXCEPT ![0] = Ft.t[Top.f], ![N] = 1]
           me == [Top EXCEPT !.at = "cfg1", !.L1 = L1, !.fgs = fgs, !.L2 = ZeroLin(N)]
       IN  /\ xgs' = StoreTriple(xgs, 0, Gt, Top.g)
           /\ stk' = Call(me, Frame("assign", "loop", L1, ZeroLin(N), fgs,
                                    Top.f, Top.g, Top.xymc, Top.px, 1))
    /\ StayInSearch
    /\ UNCHANGED << g_equivalent, flagWrites, oob, heap >>
    /\ SearchUnchanged

\* lines 647-654: after each assignF of the outer loop; first without the
\* stores of lines 651-652
Search_AfterAssign_NoClear ==
    /\ pc = "search" /\ Depth = 1 /\ Top.at \in {"cfg1", "cfg2"}
    /\ stk' = IF g_equivalent
                THEN ReplaceTop([Top EXCEPT !.at = "exit"])
              ELSE IF Top.at = "cfg1"
                THEN Call([Top EXCEPT !.at = "cfg2"],
                          Frame("assign", "loop", Top.L1, Top.L2, Top.fgs,
                                Top.f, Top.g, Top.xymc, Top.px, 2))
              ELSE ReplaceTop([Top EXCEPT !.at = "loop", !.g = @ + 1])
    /\ StayInSearch
    /\ UNCHANGED << xgs, g_equivalent, flagWrites, oob, heap >>
    /\ SearchUnchanged

Search_AfterAssign ==
    /\ pc = "search" /\ Depth = 1 /\ Top.at \in {"cfg1", "cfg2"}
    /\ stk' = IF g_equivalent
                THEN ReplaceTop([Top EXCEPT !.at = "exit"])
              ELSE IF Top.at = "cfg1"
                THEN Call([Top EXCEPT !.at = "cfg2"],
                          Frame("assign", "loop", Top.L1, Top.L2, Top.fgs,
                                Top.f, Top.g, Top.xymc, Top.px, 2))
              ELSE ReplaceTop([Top EXCEPT
                      !.at = "loop",
                      !.L1 = [y |-> [Top.L1.y EXCEPT ![Ft.t[Top.f]] = 0],
                              x |-> [Top.L1.x EXCEPT ![Gt.t[Top.g]] = 0]],
                      !.g = @ + 1])
    /\ StayInSearch
    /\ UNCHANGED << xgs, g_equivalent, flagWrites, oob, heap >>
    /\ SearchUnchanged

\* lines 657-660 and 704-707: the loop is left, everything is freed and
\* check_lin_eq_2x_uniform_3to1 returns the flag
Search_Exit ==
    /\ pc = "search" /\ Depth = 1
    /\ Top.at = "exit" \/ (Top.at = "loop" /\ Top.g >= Gt.tN)
    /\ ReturnAfterDelete(g_equivalent, Ft, Gt, TRUE, TRUE)
    /\ UNCHANGED << g_equivalent, flagWrites, oob >>
    /\ heap' = free(heap, 1, TopBuffers)
    /\ SearchUnchanged

\* lines 561-589 and 598-602: one turn of the while loop of assignF, up to
\* the call of guess or, when generateF or check refuse, to the next xymc;
\* first without the xymc += 1 of line 602
Assign_Iter_NoAdvance ==
    /\ Running("assign", "loop")
    /\ Top.xymc < 3
    /\ \E L2 \in {configure(Ft, Gt, Top.L2, Top.f, Top.g, Top.xymc, Top.cfg)} :
       \E cmb \in {combine(L2, xgs, Top.px)} :
       \E gen \in {generateF(argF, argG, Top.L1, cmb.l2, Top.fgs, cmb.xgs, Top.px)} :
       \E chk \in {IF gen.a # 0
                    THEN check(Ft, Gt, argF.nent, gen.l1, gen.fgs, gen.a)
                    ELSE [ok |-> FALSE, l1 |-> gen.l1, fgs |-> gen.fgs]} :
           /\ xgs' = cmb.xgs
           /\ stk' = IF gen.a # 0 /\ chk.ok
                     THEN Call([Top EXCEPT !.L2 = L2, !.at = "called"],
                               Frame("guess", "enter", chk.l1, cmb.l2, chk.fgs,
                                     0, 0, 0, Top.px + 1, Top.cfg))
                     ELSE ReplaceTop([Top EXCEPT !.L2 = L2])
    /\ StayInSearch
    /\ UNCHANGED << g_equivalent, flagWrites, oob >>
    /\ heap' = LET held == malloc(heap, Depth, AssignBuffers)
               IN  IF Len(stk') > Depth THEN held
                   ELSE free(held, Depth, AssignBuffers)
    /\ SearchUnchanged

Assign_Iter ==
    /\ Running("assign", "loop")
    /\ Top.xymc < 3
    /\ \E L2 \in {configure(Ft, Gt, Top.L2, Top.f, Top.g, Top.xymc, Top.cfg)} :
       \E cmb \in {combine(L2, xgs, Top.px)} :
       \E gen \in {generateF(argF, argG, Top.L1, cmb.l2, Top.fgs, cmb.xgs, Top.px)} :
       \E chk \in {IF gen.a # 0
                    THEN check(Ft, Gt, argF.nent, gen.l1, gen.fgs, gen.a)
                    ELSE [ok |-> FALSE, l1 |-> gen.l1, fgs |-> gen.fgs]} :
           /\ xgs' = cmb.xgs
           /\ stk' = IF gen.a # 0 /\ chk.ok
                     THEN Call([Top EXCEPT !.L2 = L2, !.at = "called"],
                               Frame("guess", "enter", chk.l1, cmb.l2, chk.fgs,
                                     0, 0, 0, Top.px + 1, Top.cfg))
                     ELSE ReplaceTop([Top EXCEPT !.L2 = L2, !.xymc = @ + 1])
    /\ StayInSearch
    /\ UNCHANGED << g_equivalent, flagWrites, oob >>
    /\ heap' = LET held == malloc(heap, Depth, AssignBuffers)
               IN  IF Len(stk') > Depth THEN held
                   ELSE free(held, Depth, AssignBuffers)
    /\ SearchUnchanged

\* lines 590-602: guess has returned; first without the test of the flag
Assign_AfterGuess_Unconditional ==
    /\ Running("assign", "called")
    /\ stk' = ReplaceTop([Top EXCEPT !.at = "loop", !.xymc = @ + 1])
    /\ StayInSearch
    /\ UNCHANGED << xgs, g_equivalent, flagWrites, oob >>
    /\ heap' = free(heap, Depth, AssignBuffers)
    /\ SearchUnchanged

Assign_AfterGuess ==
    /\ Running("assign", "called")
    /\ stk' = IF g_equivalent
              THEN ReturnFromAssign
              ELSE ReplaceTop([Top EXCEPT !.at = "loop", !.xymc = @ + 1])
    /\ StayInSearch
    /\ UNCHANGED << xgs, g_equivalent, flagWrites, oob >>
    /\ heap' = free(heap, Depth, AssignBuffers)
    /\ SearchUnchanged

\* lines 561 and 604: xymc has reached 3
Assign_Return ==
    /\ Running("assign", "loop")
    /\ Top.xymc >= 3
    /\ stk' = ReturnFromAssign
    /\ StayInSearch
    /\ UNCHANGED << xgs, g_equivalent, flagWrites, oob, heap >>
    /\ SearchUnchanged

\* while(L1.y[Ft.t[f]] != 0 && f < Ft.tN) f += 1, from f = from
FirstFreeF(L1, from) ==
    MinOf({q \in from..Ft.tN : ~(L1.y[Ft.t[q]] # 0 /\ q < Ft.tN)})

\* while(L1.x[Gt.t[g_]] != 0 && g_ < Gt.tN) g_ += 1, from g_ = from
FirstFreeG(L1, from) ==
    MinOf({q \in from..Gt.tN : ~(L1.x[Gt.t[q]] # 0 /\ q < Gt.tN)})

\* lines 310-358: guess up to its first call, its success or its loop
Guess_Enter ==
    /\ Running("guess", "enter")
    /\ LET N == argF.nent
           n == Shl1(2 * Top.px) - 1
           unset == {i \in 0..(N - 2) : Top.fgs[N + i] = 0}
           pf == MinOf(unset)
           f == Ft.ol[Top.fgs[pf]] - 1
           g == Gt.ol[Top.L1.y[Top.fgs[pf]]] - 1
           fgss == [Top.fgs EXCEPT ![N + pf] = 1]
       IN  IF unset = {}
           THEN /\ g_equivalent' = TRUE
                /\ flagWrites' = flagWrites + 1
                /\ stk' = ReturnFromGuess
                /\ UNCHANGED << xgs, oob, heap >>
           ELSE IF Top.fgs[pf] # 0
           THEN /\ xgs' = StoreTriple(xgs, n, Gt, g)
                /\ oob' = (oob \/ n + 2 >= N)
                /\ stk' = Call([Top EXCEPT !.at = "calledA", !.pf = pf],
                               Frame("assign", "loop", Top.L1, Top.L2, fgss,
                                     f, g, 0, Top.px, Top.cfg))
                /\ heap' = malloc(heap, Depth, GuessDerivedBuffers)
                /\ UNCHANGED << g_equivalent, flagWrites >>
           ELSE /\ stk' = ReplaceTop([Top EXCEPT !.at = "loopB", !.pf = pf,
                                         !.f = FirstFreeF(Top.L1, 0),
                                         !.g = FirstFreeG(Top.L1, 0)])
                /\ UNCHANGED << xgs, oob, heap, g_equivalent, flagWrites >>
    /\ StayInSearch
    /\ SearchUnchanged

\* lines 359-404: one turn of the while loop of guess, up to the call of
\* assignF or, when check refuses, to the next g_; or the return
Guess_Loop ==
    /\ Running("guess", "loopB")
    /\ LET N == argF.nent
           n == Shl1(2 * Top.px) - 1
           l1 == SetLin(Top.L1, Ft.t[Top.f], Gt.t[Top.g])
           fgss == [Top.fgs EXCEPT ![Top.pf] = Ft.t[Top.f]]
           chk == check(Ft, Gt, N, l1, fgss, Top.pf)
       IN  IF Top.g >= Gt.tN
           THEN /\ stk' = ReturnFromGuess
                /\ UNCHANGED << xgs, oob, heap >>
           ELSE IF chk.ok
           THEN /\ xgs' = StoreTriple(xgs, n, Gt, Top.g)
                /\ oob' = (oob \/ n + 2 >= N)
                /\ heap' = malloc(malloc(heap, Depth, GuessTurnBuffers), Depth,
                                  GuessCallBuffers)
                /\ stk' = Call([Top EXCEPT !.at = "calledB"],
                               Frame("assign", "loop", chk.l1, Top.L2,
                                     [chk.fgs EXCEPT ![N + Top.pf] = 1],
                                     Top.f, Top.g, 0, Top.px, Top.cfg))
           ELSE /\ stk' = IF g_equivalent
                          THEN ReturnFromGuess
                          ELSE ReplaceTop([Top EXCEPT
                                  !.g = FirstFreeG(Top.L1, Top.g + 1)])
                /\ heap' = free(malloc(heap, Depth, GuessTurnBuffers), Depth,
                                GuessTurnBuffers)
                /\ UNCHANGED << xgs, oob >>
    /\ StayInSearch
    /\ UNCHANGED << g_equivalent, flagWrites >>
    /\ SearchUnchanged

\* lines 349-351 and 394-401: assignF has returned
\* variant that returns on success without releasing the guess buffers
Guess_AfterAssign_KeepOnSuccess ==
    /\ pc = "search" /\ Depth > 0 /\ Top.fn = "guess"
    /\ Top.at \in {"calledA", "calledB"}
    /\ stk' = IF Top.at = "calledA" \/ g_equivalent
              THEN ReturnFromGuess
              ELSE ReplaceTop([Top EXCEPT !.at = "loopB",
                                  !.g = FirstFreeG(Top.L1, Top.g + 1)])
    /\ StayInSearch
    /\ UNCHANGED << xgs, g_equivalent, flagWrites, oob >>
    /\ heap' = IF g_equivalent THEN heap
               ELSE IF Top.at = "calledA"
               THEN free(heap, Depth, GuessDerivedBuffers)
               ELSE free(free(heap, Depth, GuessCallBuffers), Depth,
                         GuessTurnBuffers)
    /\ SearchUnchanged

Guess_AfterAssign ==
    /\ pc = "search" /\ Depth > 0 /\ Top.fn = "guess"
    /\ Top.at \in {"calledA", "calledB"}
    /\ stk' = IF Top.at = "calledA" \/ g_equivalent
              THEN ReturnFromGuess
              ELSE ReplaceTop([Top EXCEPT !.at = "loopB",
                                  !.g = FirstFreeG(Top.L1, Top.g + 1)])
    /\ StayInSearch
    /\ UNCHANGED << xgs, g_equivalent, flagWrites, oob >>
    /\ heap' = IF Top.at = "calledA"
               THEN free(heap, Depth, GuessDerivedBuffers)
               ELSE free(free(heap, Depth, GuessCallBuffers), Depth,
                         GuessTurnBuffers)
    /\ SearchUnchanged

(***************************************************************************)
(* bool check_lin_eq_2x_uniform_3to1(vbf_tt *F, vbf_tt *G): lines 680-708. *)
(***************************************************************************)
\* truth tables that fail the canonical-triplicate check, each in its own
\* way: F(0) != 0, a nonzero input sent to 0, an output shared by two
\* triples, a triple that is not closed
NonCanonical ==
    { PerturbEntry(CTFun(1), 0, 1), PerturbEntry(CTFun(1), 1, 0),
      PerturbTriple(CTFun(1), 2, 1), PerturbEntry(CTFun(1), N4 - 1, 1) }

EqInputs ==
    {CTFun(k) : k \in 1..NumCT}
    \cup NonCanonical
    \cup {NullTT, MkTT(2, Zeros(Shl1(2)))}

BoolName(b) == IF b THEN "true" ELSE "false"

Call_check_lin_eq_2x_uniform_3to1(F, G) ==
    /\ pc = "idle"
    /\ entry' = "lin_eq"
    /\ argF' = F
    /\ argG' = G
    /\ oob' = FALSE
    /\ entryFlag' = g_equivalent
    /\ flagWrites' = 0
    /\ searched' = FALSE
    /\ swapRet' = IF entry = "lin_eq" /\ argF = G /\ argG = F
                  THEN BoolName(ret) ELSE "none"
    /\ UNCHANGED << g_equivalent, heap >>
    /\ IF F.null \/ G.null
       THEN Return(FALSE, NoT, NoT)
       ELSE IF F.dim # G.dim
       THEN Return(FALSE, NoT, NoT)
       ELSE /\ pc' = "ct_begin"
            /\ ct' = [who |-> "F", i |-> 0, j |-> 0, c |-> << >>]
            /\ Ft' = NoT
            /\ Gt' = NoT
            /\ UNCHANGED << ret, stk, xgs >>

CallEq == \E F \in EqInputs : \E G \in EqInputs : Call_check_lin_eq_2x_uniform_3to1(F, G)

NextEq ==
    \/ CallEq
    \/ CT_Begin
    \/ CT_Iter
    \/ CT_End
    \/ Search_Root
    \/ Search_AfterAssign
    \/ Search_Exit
    \/ Assign_Iter
    \/ Assign_AfterGuess
    \/ Assign_Return
    \/ Guess_Enter
    \/ Guess_Loop
    \/ Guess_AfterAssign

SpecEq == InitCommon /\ [][NextEq]_vars

\* a call, once made, runs: the caller waits for it and nothing else takes
\* its steps
RunningStep ==
    \/ CT_Begin
    \/ CT_Iter
    \/ CT_End
    \/ Search_Root
    \/ Search_AfterAssign
    \/ Search_Exit
    \/ Assign_Iter
    \/ Assign_AfterGuess
    \/ Assign_Return
    \/ Guess_Enter
    \/ Guess_Loop
    \/ Guess_AfterAssign

\* the calls of the fair specification: pairs of canonical triplicates of
\* dimension 4, and one call that fails the check of its second argument
FairInputs == {CTFun(1), CTFun(2), PerturbEntry(CTFun(1), 1, 0)}

CallEqFair == \E G \in FairInputs : Call_check_lin_eq_2x_uniform_3to1(CTFun(1), G)

NextEqFair ==
    \/ CallEqFair
    \/ RunningStep

SpecEqFair == InitCommon /\ [][NextEqFair]_vars /\ WF_vars(RunningStep)

(***************************************************************************)
(* The search in dimension 6, where a guess can be derived: in dimension 4 *)
(* generateF flags every output before guess can find one that check       *)
(* derived, so the branch of lines 328-352 is never taken there.           *)
(***************************************************************************)
Pow3(x, d) ==
    GFMul(GFMul(x, x, get_primitive_polynomial(d), d), x,
          get_primitive_polynomial(d), d)

\* x^3 over GF(2^6)
Cube6 == MkTT(6, [x \in 0..63 |-> Pow3(x, 6)])

\* x^6 over GF(2^6): x^3 after the linear map x^2
Sixth6 ==
    MkTT(6, [x \in 0..63 |-> Pow3(GFMul(x, x, get_primitive_polynomial(6), 6), 6)])

\* x^3 with the outputs 1 and Cube6(2) exchanged
Swapped6 ==
    MkTT(6, [x \in 0..63 |->
                IF Cube6.vals[x] = 1 THEN Cube6.vals[2]
                ELSE IF Cube6.vals[x] = Cube6.vals[2] THEN 1
                ELSE Cube6.vals[x]])

Eq6Inputs == {Cube6, Sixth6, Swapped6}

CallEq6 == \E G \in Eq6Inputs : Call_check_lin_eq_2x_uniform_3to1(Cube6, G)

NextEq6 ==
    \/ CallEq6
    \/ CT_Begin
    \/ CT_Iter
    \/ CT_End
    \/ Search_Root
    \/ Search_AfterAssign
    \/ Search_Exit
    \/ Assign_Iter
    \/ Assign_AfterGuess
    \/ Assign_Return
    \/ Guess_Enter
    \/ Guess_Loop
    \/ Guess_AfterAssign

SpecEq6 == InitCommon /\ [][NextEq6]_vars

(***************************************************************************)
(* Properties of the canonical-triplicate check.                           *)
(***************************************************************************)
InRange(F) == \A x \in 0..(F.nent - 1) : F.vals[x] < F.nent

NonzeroImage(F) == {F.vals[x] : x \in 0..(F.nent - 1)} \ {0}
Preimages(F, y) == {x \in 0..(F.nent - 1) : F.vals[x] = y}

\* the characterisation of a canonical triplicate of dimension 4
IsCanonical4(F) ==
    /\ F.vals[0] = 0
    /\ Cardinality(NonzeroImage(F)) = (N4 - 1) \div 3
    /\ \A y \in NonzeroImage(F) : Cardinality(Preimages(F, y)) = 3
    /\ \A i \in 1..(N4 - 1) :
          /\ F.vals[i] # 0
          /\ F.vals[BetaMul4(i)] = F.vals[i]
          /\ F.vals[BitXor(i, BetaMul4(i))] = F.vals[i]

IsCtReturned == pc = "idle" /\ entry = "is_ct"
IsTable(F) == ~F.null /\ F.nent = Shl1(F.dim)

\* C4: for a truth table of dimension 4 with every entry below 2^4,
\* is_canonical_triplicate_c returns true exactly when F(0) = 0, F has five
\* distinct nonzero outputs each attained three times and every triple
\* {i, i*beta, i ^ i*beta} maps to one nonzero output; for a table of odd or
\* unsupported dimension it returns false.
C4_CanonicalIff ==
    (IsCtReturned /\ IsTable(argF)) =>
        IF argF.dim = n4
        THEN InRange(argF) => (ret = IsCanonical4(argF))
        ELSE ret = FALSE

C4_Witness ==
    /\ IsCtReturned
    /\ IsTable(argF)
    /\ argF.dim = n4
    /\ InRange(argF)
    /\ ret = TRUE
    /\ argF # CTFun(1)

\* rows of the triple table: T.t holds four arrays of tN entries, the
\* outputs first, then the three preimages
RowOut(T, j) == T.t[j]
RowPre(T, j) == << T.t[T.tN + j], T.t[(2 * T.tN) + j], T.t[(3 * T.tN) + j] >>
RowPreSet(T, j) == {RowPre(T, j)[q] : q \in 1..3}

EmittedOk(F, T, filled) ==
    LET rows == 0..(T.tN - 1)
    IN  /\ T.tN = (F.nent - 1) \div 3
        /\ filled = T.tN
        /\ \A j \in rows :
              /\ Cardinality(RowPreSet(T, j)) = 3
              /\ BitXor(BitXor(RowPre(T, j)[1], RowPre(T, j)[2]), RowPre(T, j)[3]) = 0
              /\ \A x \in RowPreSet(T, j) : F.vals[x] = RowOut(T, j)
        /\ \A j1 \in rows : \A j2 \in rows : j1 # j2 => RowOut(T, j1) # RowOut(T, j2)
        /\ {RowOut(T, j) : j \in rows} = NonzeroImage(F)
        /\ UNION {RowPreSet(T, j) : j \in rows} = 1..(F.nent - 1)
        /\ \A j1 \in rows : \A j2 \in rows :
              j1 # j2 => RowPreSet(T, j1) \cap RowPreSet(T, j2) = {}
        /\ T.ol[0] = 0
        /\ \A j \in rows : RowOut(T, j) \in DOMAIN T.ol /\ T.ol[RowOut(T, j)] = j + 1
        /\ \A y \in DOMAIN T.ol :
              y \notin {RowOut(T, j) : j \in rows} => T.ol[y] = 0

\* the check is about to report success (line 209)
CtSucceeding == pc = "ct_loop" /\ ct.i >= CurTT.nent

\* C5: whenever the check succeeds on F, the triple table and the lookup it
\* leaves are complete and consistent: tN rows, each of three distinct
\* preimages that XOR to 0 and map to the row's output; distinct outputs
\* covering F's nonzero image; preimages covering the nonzero inputs once;
\* ol[0] = 0 and ol[y] = j + 1 exactly for the output y of row j.
C5_EmittedTable == CtSucceeding => EmittedOk(CurTT, CurT, ct.j)

\* the same, for tables whose entries are all below 2^n
C5_EmittedTableInRange ==
    (CtSucceeding /\ InRange(CurTT)) => EmittedOk(CurTT, CurT, ct.j)

C5_Reached == CtSucceeding /\ InRange(CurTT) /\ CurTT # CTFun(1)

HasOutOfRange(F) == \E x \in 0..(F.nent - 1) : F.vals[x] >= F.nent

\* C7: for a table of dimension 4 with F(0) = 0 and some entry >= 2^4,
\* is_canonical_triplicate_c returns false, and no array is accessed outside
\* its bounds on the way.
C7_OutOfRangeRejected ==
    (entry = "is_ct" /\ IsTable(argF) /\ argF.dim = n4 /\ argF.vals[0] = 0
       /\ HasOutOfRange(argF)) =>
        /\ ~oob
        /\ pc # "crashed"
        /\ pc = "idle" => ret = FALSE

(***************************************************************************)
(* The invariant suite: invariants_computations.cpp.  A function handle is *)
(* a truth-table record (null for a NULL handle); dim is Function::n and   *)
(* vals is Function::LUT.                                                  *)
(***************************************************************************)
\* the Boolean function of three variables whose truth table is the binary
\* expansion of t, as a LUT of dimension 3 with entries 0 and 1
Bool3(t) == MkTT(3, [x \in 0..7 |-> (t \div Shl1(x)) % 2])

\* the table whose entries, from index 0, are the members of s
FromSeq(s) == [x \in 0..(Len(s) - 1) |-> s[x + 1]]

\* tables of dimension 3 with entries in 0..7: x^3 in GF(2^3) (polynomial
\* 11), the same with two entries exchanged, the identity, x^3 with one
\* entry changed
Fun3 ==
    { MkTT(3, FromSeq(<< 0, 1, 3, 4, 5, 6, 7, 2 >>)),
      MkTT(3, FromSeq(<< 0, 3, 1, 4, 5, 6, 7, 2 >>)),
      MkTT(3, FromSeq(<< 0, 1, 2, 3, 4, 5, 6, 7 >>)),
      MkTT(3, FromSeq(<< 0, 1, 3, 4, 5, 6, 7, 7 >>)) }

InvInputs ==
    {MkTT(1, v) : v \in [0..1 -> 0..1]}
    \cup {MkTT(2, v) : v \in [0..3 -> 0..3]}
    \cup {Bool3(t) : t \in 0..(NumBool3 - 1)}
    \cup {NullTT}

\* lines 187-196: the frequency of each output
freq(F, v) == Cardinality({x \in 0..(F.nent - 1) : F.vals[x] = v})

compute_k_to_1(F) ==
    LET sz == Shl1(F.dim)
        attained == {v \in 1..(sz - 1) : freq(F, v) > 0}
        k == freq(F, MinOf(attained))
    IN  IF F.dim = 0 THEN (IF F.vals[0] = 0 THEN 1 ELSE -1)
        ELSE IF \E x \in 0..(sz - 1) : F.vals[x] >= sz THEN -1
        ELSE IF freq(F, 0) # 1 THEN -1
        ELSE IF attained = {} THEN -1
        ELSE IF \E v \in attained : freq(F, v) # k THEN -1
        ELSE k

function_k_to_1(fh) == IF fh.null THEN -1 ELSE compute_k_to_1(fh)

\* lines 240-246: one value of step, every j in turn; f[j ^ step] has the
\* step bit clear, so the pass never reads an entry it has written
anf_pass(f, step) ==
    [j \in DOMAIN f |->
        IF BitAnd(j, step) # 0 THEN BitXor(f[j], f[BitXor(j, step)]) ELSE f[j]]

RECURSIVE anf_from(_, _)
anf_from(f, step) ==
    IF step >= Cardinality(DOMAIN f) THEN f
    ELSE anf_from(anf_pass(f, step), 2 * step)

compute_anf_bool_inplace(f) == anf_from(f, 1)

\* lines 258-266: the ANF of coordinate c
anf_of(F, c) ==
    compute_anf_bool_inplace(
        [x \in 0..(Shl1(F.dim) - 1) |-> (F.vals[x] \div Shl1(c)) % 2])

\* lines 271-284: i runs down from sz - 1 and the loop breaks at the first
\* coefficient 1 it meets; w is the weight of that index
coord_weight(a) ==
    LET ones == {i \in DOMAIN a : a[i] = 1}
    IN  IF ones = {} THEN 0
        ELSE PopCount(CHOOSE i \in ones : \A q \in ones : q <= i)

MaxOf(S) == CHOOSE m \in S : \A q \in S : q <= m

compute_algebraic_degree_mv(F) ==
    IF F.dim = 0 THEN 0
    ELSE MaxOf({0} \cup {coord_weight(anf_of(F, c)) : c \in 0..(F.dim - 1)})

function_algebraic_degree(fh) ==
    IF fh.null THEN 0 ELSE compute_algebraic_degree_mv(fh)

\* line 140: val = ++counts[od]
du_count_once(counts, od) == [counts EXCEPT ![od] = 1]

du_count(counts, od) == [counts EXCEPT ![od] = @ + 1]

\* lines 137-143: the loop over x for one a; st carries counts and max_count
RECURSIVE du_x(_, _, _, _)
du_x(F, a, x, st) ==
    IF st.max_count < 0 \/ x >= Shl1(F.dim) THEN st
    ELSE LET od == BitXor(F.vals[x], F.vals[BitXor(x, a)])
             cn == du_count(st.counts, od)
         IN  du_x(F, a, x + 1,
                  [counts |-> cn,
                   max_count |-> IF cn[od] > st.max_count THEN cn[od]
                                 ELSE st.max_count])

\* lines 134-144: the loop over a, from a = first; counts is cleared for each a
RECURSIVE du_a(_, _, _)
du_a(F, a, mx) ==
    IF mx < 0 \/ a >= Shl1(F.dim) THEN mx
    ELSE du_a(F, a + 1,
              du_x(F, a, 0, [counts |-> Zeros(Shl1(F.dim)), max_count |-> mx]).max_count)

\* the loop of line 134 started at a = 0
differential_uniformity_from_zero(F) ==
    IF F.dim = 0 THEN 0 ELSE du_a(F, 0, 0)

differential_uniformity(F) ==
    IF F.dim = 0 THEN 0 ELSE du_a(F, 1, 0)

is_apn(F) == differential_uniformity(F) = 2

function_is_apn(fh) == IF fh.null THEN FALSE ELSE is_apn(fh)

function_differential_uniformity(fh) ==
    IF fh.null THEN 0 ELSE differential_uniformity(fh)

\* a call of the invariant suite runs to completion in one step
InvUnchanged ==
    UNCHANGED << pc, argG, g_equivalent, ct, Ft, Gt, stk, xgs, oob, heap,
                 entryFlag, flagWrites, searched, swapRet >>

Call_function_k_to_1 ==
    /\ pc = "idle"
    /\ \E F \in InvInputs :
          /\ entry' = "k_to_1"
          /\ argF' = F
          /\ ret' = function_k_to_1(F)
    /\ InvUnchanged

Call_function_algebraic_degree ==
    /\ pc = "idle"
    /\ \E F \in InvInputs :
          /\ entry' = "algebraic_degree"
          /\ argF' = F
          /\ ret' = function_algebraic_degree(F)
    /\ InvUnchanged

NextInv == Call_function_k_to_1 \/ Call_function_algebraic_degree

SpecInv == InitCommon /\ [][NextInv]_vars

(***************************************************************************)
(* function_differential_uniformity and function_is_apn.                   *)
(***************************************************************************)
DUInputs == InvInputs \cup Fun3

\* what the two entry points return on each input, computed once
differential_uniformity_of ==
    [F \in DUInputs |-> function_differential_uniformity(F)]
is_apn_of == [F \in DUInputs |-> function_is_apn(F)]

Call_function_differential_uniformity ==
    /\ pc = "idle"
    /\ \E F \in DUInputs :
          /\ entry' = "differential_uniformity"
          /\ argF' = F
          /\ ret' = differential_uniformity_of[F]
    /\ InvUnchanged

Call_function_is_apn ==
    /\ pc = "idle"
    /\ \E F \in DUInputs :
          /\ entry' = "is_apn"
          /\ argF' = F
          /\ ret' = is_apn_of[F]
    /\ InvUnchanged

NextDU == Call_function_differential_uniformity \/ Call_function_is_apn

SpecDU == InitCommon /\ [][NextDU]_vars

(***************************************************************************)
(* function_is_monomial: lines 334-468.  A Function made by                *)
(* create_function_from_truth_table_and_poly carries its polynomial.       *)
(***************************************************************************)
MkFunction(n, v, poly) ==
    [null |-> FALSE, dim |-> n, nent |-> Shl1(n), vals |-> v, polynomial |-> poly]

\* lines 352-361: alogtbl[i] for i = from .. size - 2, each from the entry
\* before it
RECURSIVE alog_from(_, _, _, _)
alog_from(n, poly, i, tbl) ==
    IF i >= Shl1(n) - 1 THEN tbl
    ELSE LET next == 2 * tbl[i - 1]
             red == IF BitAnd(next, Shl1(n)) # 0 THEN BitXor(next, poly) ELSE next
         IN  alog_from(n, poly, i + 1, [tbl EXCEPT ![i] = red])

\* lines 363-366: logtbl[alogtbl[i]] = i for i = from .. size - 2, in turn
RECURSIVE log_from(_, _, _, _)
log_from(n, alogtbl, i, tbl) ==
    IF i >= Shl1(n) - 1 THEN tbl
    ELSE log_from(n, alogtbl, i + 1, Put(tbl, alogtbl[i], i))

\* GF2nCtx(n, poly) with build_tables(): lines 341-367
GF2nCtx(n, poly) ==
    LET size == Shl1(n)
        alogtbl == alog_from(n, poly, 1, [Zeros(size) EXCEPT ![0] = 1])
    IN  [n |-> n, size |-> size, poly |-> poly, alogtbl |-> alogtbl,
         logtbl |-> log_from(n, alogtbl, 0, Zeros(size))]

gf_mul(ctx, x, y) ==
    IF x = 0 \/ y = 0 THEN 0
    ELSE ctx.alogtbl[(ctx.logtbl[x] + ctx.logtbl[y]) % (ctx.size - 1)]

gf_pow(ctx, x, d) ==
    IF x = 0 THEN (IF d = 0 THEN 1 ELSE 0)
    ELSE ctx.alogtbl[(ctx.logtbl[x] * d) % (ctx.size - 1)]

\* lines 418-458: the loop over d, from d = d0.  For each d the first x
\* with x^d != 0 gives the candidate a, which is then tried on every xx
RECURSIVE mono_from(_, _, _, _)
mono_from(F, ctx, b, d) ==
    IF d >= ctx.size - 1 THEN FALSE
    ELSE LET sz == Shl1(F.dim)
             xs == {x \in 1..(sz - 1) : gf_pow(ctx, x, d) # 0}
             x == MinOf(xs)
             diff == BitXor(F.vals[x], b)
             a == IF diff # 0
                  THEN gf_mul(ctx, diff, gf_pow(ctx, x, ctx.size - 1 - d))
                  ELSE 0
             val(xx) == IF a # 0 /\ gf_pow(ctx, xx, d) # 0
                        THEN BitXor(b, gf_mul(ctx, a, gf_pow(ctx, xx, d)))
                        ELSE b
         IN  IF xs = {} THEN mono_from(F, ctx, b, d + 1)
             ELSE IF \A xx \in 0..(sz - 1) : val(xx) = F.vals[xx] THEN TRUE
             ELSE mono_from(F, ctx, b, d + 1)

is_monomial_impl(F) ==
    IF F.polynomial = 0 THEN FALSE
    ELSE IF F.dim > 16 THEN FALSE
    ELSE IF \A x \in 0..(Shl1(F.dim) - 1) : F.vals[x] = F.vals[0] THEN FALSE
    ELSE mono_from(F, GF2nCtx(F.dim, F.polynomial), F.vals[0], 0)

function_is_monomial(fh) == IF fh.null THEN FALSE ELSE is_monomial_impl(fh)

\* the product and the power in GF(2)[x]/P, P of degree n, as tables
\* computed from the carry-less product and the remainder
FieldMul(P, n) ==
    [a \in 0..(Shl1(n) - 1) |-> [b \in 0..(Shl1(n) - 1) |-> GFMul(a, b, P, n)]]

RECURSIVE PowerRow(_, _, _, _)
PowerRow(mulT, x, d, row) ==
    IF d > Len(row) THEN row
    ELSE PowerRow(mulT, x, d + 1,
                  [row EXCEPT ![d] = IF d = 1 THEN 1 ELSE mulT[row[d - 1]][x]])

\* FieldPow(P, n)[x][d + 1] = x^d for d = 0 .. 2^n - 2, with x^0 = 1
FieldPow(P, n) ==
    LET mulT == FieldMul(P, n)
    IN  [x \in 0..(Shl1(n) - 1) |->
            PowerRow(mulT, x, 1, [d \in 1..(Shl1(n) - 1) |-> 0])]

\* the polynomials given with the tables: irreducible ones of degree 1 to 4
\* (31 = x^4 + x^3 + x^2 + x + 1 is irreducible and not primitive), and 0
\* for a Function made without polynomial
Polys == (1 :> {3}) @@ (2 :> {7}) @@ (3 :> {11, 13}) @@ (4 :> {19, 25, 31})

\* the tables a * x^d ^ b of GF(2)[x]/Q
MonomialTable(n, Q, a, b, d) ==
    LET mulT == FieldMul(Q, n)
        powT == FieldPow(Q, n)
    IN  [x \in 0..(Shl1(n) - 1) |-> BitXor(mulT[a][powT[x][d + 1]], b)]

MonoTables ==
    [n \in 1..4 |->
        IF n <= 2 THEN [0..(Shl1(n) - 1) -> 0..(Shl1(n) - 1)]
        ELSE IF n = 3
        THEN {MonomialTable(3, Q, a, b, d) :
                 Q \in Polys[3], a \in {1, 3}, b \in {0, 5}, d \in 0..6}
             \cup {F.vals : F \in Fun3}
        ELSE {MonomialTable(4, Q, 1, b, d) :
                 Q \in Polys[4], b \in {0, 1}, d \in {1, 3, 7}}
             \cup {CTFun(2).vals}]

MonoInputs ==
    UNION {{MkFunction(n, v, P) : v \in MonoTables[n], P \in Polys[n]} : n \in 1..4}
    \cup {MkFunction(2, v, 0) : v \in {F.vals : F \in {MkTT(2, FromSeq(<< 0, 1, 2, 3 >>))}}}
    \cup {NullTT}

\* what function_is_monomial returns on each input, computed once
is_monomial_of == [F \in MonoInputs |-> function_is_monomial(F)]

Call_function_is_monomial ==
    /\ pc = "idle"
    /\ \E F \in MonoInputs :
          /\ entry' = "is_monomial"
          /\ argF' = F
          /\ ret' = is_monomial_of[F]
    /\ InvUnchanged

NextMono == Call_function_is_monomial

SpecMono == InitCommon /\ [][NextMono]_vars

(***************************************************************************)
(* spectra_computations.c: the ortho-derivative and its differential       *)
(* spectrum.  A vbf_tt is a record with dim, nent and vals.                 *)
(***************************************************************************)
\* lines 21-31: the parity of the bits a and b share
RECURSIVE dot_bits(_, _)
dot_bits(a, b) ==
    IF a = 0 /\ b = 0 THEN FALSE
    ELSE (a % 2 = 1 /\ b % 2 = 1) # dot_bits(a \div 2, b \div 2)

\* lines 58-67: possible_value is orthogonal to the derivative at every x
is_orthogonal(f, a, possible_value) ==
    \A x \in 0..(f.nent - 1) :
        ~dot_bits(possible_value,
                  BitXor(BitXor(f.vals[0], f.vals[a]),
                         BitXor(f.vals[x], f.vals[BitXor(x, a)])))

\* lines 56-78: the first orthogonal possible_value from pv on, 0 if none
RECURSIVE od_search(_, _, _)
od_search(f, a, pv) ==
    IF pv >= f.nent THEN 0
    ELSE IF is_orthogonal(f, a, pv) THEN pv
    ELSE od_search(f, a, pv + 1)

\* line 56: possible_value starts at 1
od_value_from_zero(f, a) == od_search(f, a, 0)
od_value(f, a) == od_search(f, a, 1)

\* lines 38-81
compute_orthoderivative(f) ==
    [dim |-> f.dim, nent |-> f.nent,
     vals |-> [a \in 0..(f.nent - 1) |-> IF a = 0 THEN 0 ELSE od_value(f, a)]]

\* lines 103-106: ++solutions[hit] for x = x0 .. N - 1
RECURSIVE ds_hits(_, _, _, _)
ds_hits(od, a, x, solutions) ==
    IF solutions[0] < 0 \/ x >= od.nent THEN solutions
    ELSE LET hit == BitXor(od.vals[x], od.vals[BitXor(x, a)])
         IN  ds_hits(od, a, x + 1, [solutions EXCEPT ![hit] = @ + 1])

\* lines 109-114: spectrum_counts[solutions[c]]++ for c = c0 .. N - 1
RECURSIVE ds_tally(_, _, _, _)
ds_tally(N, solutions, c, counts) ==
    IF counts[0] < 0 \/ c >= N THEN counts
    ELSE LET fr == solutions[c]
         IN  ds_tally(N, solutions, c + 1,
                      IF fr <= N THEN [counts EXCEPT ![fr] = @ + 1] ELSE counts)

\* lines 98-115: the loop over a, from a = a0
RECURSIVE ds_loop(_, _, _)
ds_loop(od, a, counts) ==
    IF counts[0] < 0 \/ a >= od.nent THEN counts
    ELSE ds_loop(od, a + 1,
                 ds_tally(od.nent, ds_hits(od, a, 0, Zeros(od.nent)), 0, counts))

\* line 92: memset(spectrum_counts, 0, sizeof(size_t) * (N + 1))
ds_keep(spectrum_counts, N) == spectrum_counts
ds_memset(spectrum_counts, N) ==
    [m \in DOMAIN spectrum_counts |-> IF m <= N THEN 0 ELSE spectrum_counts[m]]

\* lines 86-122: the local od and the caller's spectrum_counts at return
compute_differential_spectrum(f, spectrum_counts) ==
    LET od == compute_orthoderivative(f)
    IN  [od |-> od,
         spectrum_counts |-> ds_loop(od, 1, ds_memset(spectrum_counts, od.nent))]

\* the truth tables given: every table of dimension 1 and 2, and tables of
\* dimension 3 and 4
SpectraTables ==
    {MkTT(1, v) : v \in [0..1 -> 0..1]}
    \cup {MkTT(2, v) : v \in [0..3 -> 0..3]}
    \cup Fun3
    \cup {Bool3(t) : t \in {0, 1, 23, 105}}
    \cup {CTFun(1), MkTT(4, MonomialTable(4, 19, 1, 0, 7))}

\* what the caller's array of 2^n + 1 counts holds before the call
StaleCounts(N) == {[m \in 0..N |-> 0], [m \in 0..N |-> m + 1]}

SpectraInputs == UNION {{<< f, c >> : c \in StaleCounts(f.nent)} : f \in SpectraTables}

differential_spectrum_of ==
    [fc \in SpectraInputs |-> compute_differential_spectrum(fc[1], fc[2])]

Call_compute_differential_spectrum ==
    /\ pc = "idle"
    /\ \E fc \in SpectraInputs :
          /\ entry' = "differential_spectrum"
          /\ argF' = fc[1]
          /\ argG' = fc[2]
          /\ ret' = differential_spectrum_of[fc]
    /\ UNCHANGED << pc, g_equivalent, ct, Ft, Gt, stk, xgs, oob, heap, entryFlag,
                    flagWrites, searched, swapRet >>

NextSpectra == Call_compute_differential_spectrum

SpecSpectra == InitCommon /\ [][NextSpectra]_vars

(***************************************************************************)
(* The dimension-indexed constants and the multiplication by beta of       *)
(* lines 189-191, in every dimension the tables cover.                     *)
(***************************************************************************)
MaxFFInput == 64

\* lines 189-191: k = i * beta with the polynomial looked up for the dimension
multiply_by_beta(i, dimension) ==
    ff_multiply(i, get_beta(dimension), get_primitive_polynomial(dimension), dimension)

\* the dimensions of the polynomial table and the even ones of line 140
Dimensions == 0..20
EvenDimensions == {dimension \in 4..20 : dimension % 2 = 0}

\* the nonzero inputs multiplied: the smallest ones and the largest ones
FFInputs(dimension) ==
    {i \in 1..MaxFFInput : i < Shl1(dimension)}
    \cup {Shl1(dimension) - j : j \in 1..4}
    \cup {Shl1(dimension - 1)}

\* i * beta, (i * beta) * beta and (i ^ i * beta) * beta
beta_products ==
    [dimension \in EvenDimensions |->
        [i \in FFInputs(dimension) |->
            LET k == multiply_by_beta(i, dimension)
            IN  [k |-> k,
                 kb |-> multiply_by_beta(k, dimension),
                 kxb |-> multiply_by_beta(BitXor(i, k), dimension)]]]

FFUnchanged ==
    UNCHANGED << pc, argG, g_equivalent, ct, Ft, Gt, stk, xgs, oob, heap,
                 entryFlag, flagWrites, searched, swapRet >>

Call_get_primitive_polynomial ==
    /\ pc = "idle"
    /\ \E dimension \in Dimensions :
          /\ entry' = "get_primitive_polynomial"
          /\ argF' = [dim |-> dimension, i |-> 0]
          /\ ret' = get_primitive_polynomial(dimension)
    /\ FFUnchanged

Call_get_beta ==
    /\ pc = "idle"
    /\ \E dimension \in Dimensions :
          /\ entry' = "get_beta"
          /\ argF' = [dim |-> dimension, i |-> 0]
          /\ ret' = get_beta(dimension)
    /\ FFUnchanged

Call_ff_multiply ==
    /\ pc = "idle"
    /\ \E dimension \in EvenDimensions :
          \E i \in FFInputs(dimension) :
              /\ entry' = "ff_multiply"
              /\ argF' = [dim |-> dimension, i |-> i]
              /\ ret' = beta_products[dimension][i]
    /\ FFUnchanged

NextFF == Call_get_primitive_polynomial \/ Call_get_beta \/ Call_ff_multiply

SpecFF == InitCommon /\ [][NextFF]_vars


(***************************************************************************)
(* Properties of check_lin_eq_2x_uniform_3to1.                             *)
(***************************************************************************)
LinEqReturned == pc = "idle" /\ entry = "lin_eq"

\* a canonical triplicate of dimension 4
ValidCT(F) ==
    /\ IsTable(F)
    /\ F.dim = n4
    /\ InRange(F)
    /\ IsCanonical4(F)

\* the GF(2)-linear map of GF(2^4) given by the images L[1..4] of 1, 2, 4, 8
ApplyLin(L, x) ==
    BitXor(BitXor(IF x % 2 = 1 THEN L[1] ELSE 0,
                  IF (x \div 2) % 2 = 1 THEN L[2] ELSE 0),
           BitXor(IF (x \div 4) % 2 = 1 THEN L[3] ELSE 0,
                  IF (x \div 8) % 2 = 1 THEN L[4] ELSE 0))

IsBijection(L) == \A x \in 1..(N4 - 1) : ApplyLin(L, x) # 0

RECURSIVE XorAll(_)
XorAll(S) ==
    IF S = {} THEN 0
    ELSE LET e == CHOOSE q \in S : TRUE IN BitXor(e, XorAll(S \ {e}))

\* a one-to-one map m of a set of vectors extends to a linear bijection of
\* the whole space exactly when it keeps every linear relation and adds
\* none: a subset sums to 0 iff its image does
ExtendsToLinearBijection(m) ==
    \A T \in SUBSET (DOMAIN m) :
        (XorAll(T) = 0) <=> (XorAll({m[y] : y \in T}) = 0)

\* there is a linear bijection L1 with L1(H(x)) = G(x) for every x: the
\* relation H(x) -> G(x) is a one-to-one map and extends linearly
SolvableForL1(H, G) ==
    /\ \A x \in DOMAIN H : \A w \in DOMAIN H : (H[x] = H[w]) <=> (G[x] = G[w])
    /\ H[0] = 0 /\ G[0] = 0
    /\ ExtendsToLinearBijection(
           [y \in {H[x] : x \in DOMAIN H} \ {0} |->
               G[CHOOSE x \in DOMAIN H : H[x] = y]])

\* linear bijections L1, L2 of GF(2^4) exist with L1(F(L2(x))) = G(x) for
\* every x, for canonical triplicates F and G.  L1 is one-to-one, so F o L2
\* and G have the same fibres, the triples: L2 sends beta = 1*beta into the
\* triple of L2(1) and 2*beta into the triple of L2(2).  With 4 = 2 ^ beta
\* and 8 = 4 ^ 2*beta this leaves the candidates enumerated here.
LinEquivalent(F, G) ==
    \E a1 \in 1..(N4 - 1) : \E a2 \in 1..(N4 - 1) :
      \E b1 \in TripleOf(a1) : \E b2 \in TripleOf(a2) :
        LET a4 == BitXor(a2, b1)
            a8 == BitXor(a4, b2)
            L2 == << a1, a2, a4, a8 >>
        IN  /\ BitXor(2, BetaMul4(1)) = 4
            /\ BitXor(4, BetaMul4(2)) = 8
            /\ IsBijection(L2)
            /\ SolvableForL1([x \in 0..(N4 - 1) |-> F.vals[ApplyLin(L2, x)]], G.vals)

\* C1: for canonical triplicates F and G of dimension 4,
\* check_lin_eq_2x_uniform_3to1(F, G) returns true if and only if linear
\* bijections L1, L2 with L1(F(L2(x))) = G(x) for every x exist.
C1_TrueIffEquivalent ==
    (LinEqReturned /\ ValidCT(argF) /\ ValidCT(argG)) =>
        (ret = LinEquivalent(argF, argG))

\* the half of C1 that the code keeps: true is returned only for
\* equivalent functions
C1_TrueOnlyIfEquivalent ==
    (LinEqReturned /\ ValidCT(argF) /\ ValidCT(argG) /\ ret = TRUE) =>
        LinEquivalent(argF, argG)

\* C2: for every canonical triplicate F, check_lin_eq_2x_uniform_3to1(F, F)
\* returns true.
C2_Reflexive ==
    (LinEqReturned /\ ValidCT(argF) /\ argG = argF) => ret = TRUE

\* C3: for canonical triplicates F and G, the call on (F, G) returns what
\* the call on (G, F), made just before it, returned.
C3_Symmetric ==
    (LinEqReturned /\ ValidCT(argF) /\ ValidCT(argG) /\ swapRet # "none") =>
        BoolName(ret) = swapRet

C3_Witness ==
    /\ LinEqReturned
    /\ ValidCT(argF)
    /\ ValidCT(argG)
    /\ argF # argG
    /\ swapRet = "true"
    /\ ret = TRUE

\* the arguments the contract rejects: a null table, different dimensions,
\* a table of dimension 4 that is not a canonical triplicate
FailsCheck(F) == IsTable(F) /\ F.dim = n4 /\ InRange(F) /\ ~IsCanonical4(F)

InvalidArgs(F, G) ==
    \/ F.null
    \/ G.null
    \/ F.dim # G.dim
    \/ FailsCheck(F)
    \/ (ValidCT(F) /\ FailsCheck(G))

\* C6: on invalid arguments check_lin_eq_2x_uniform_3to1 runs no step of
\* the search and its only effect is to return false.
C6_InvalidRejected ==
    (entry = "lin_eq" /\ InvalidArgs(argF, argG)) =>
        /\ ~searched
        /\ pc # "crashed"
        /\ pc = "idle" => ret = FALSE

\* the vectors of S span GF(2)^4: the sums of its subsets are all 16
Spans(S) == Cardinality({XorAll(T) : T \in SUBSET S}) = N4

\* what check_lin_eq_2x_uniform_3to1(F, G) returns, as a function of its
\* arguments alone
ValueFor(F, G) ==
    /\ ~F.null
    /\ ~G.null
    /\ ValidCT(F)
    /\ ValidCT(G)
    /\ Spans(NonzeroImage(F))
    /\ LinEquivalent(F, G)

IsKTo1(F, k) ==
    /\ F.vals[0] = 0
    /\ \A x \in 1..(F.nent - 1) : F.vals[x] # 0
    /\ \A y \in NonzeroImage(F) : Cardinality(Preimages(F, y)) = k

\* C9: for a table of dimension n >= 1 with entries below 2^n,
\* function_k_to_1 returns k >= 1 exactly when F(0) = 0, no other input maps
\* to 0 and every attained nonzero output has k preimages; otherwise -1.
C9_KToOne ==
    (pc = "idle" /\ entry = "k_to_1" /\ IsTable(argF) /\ argF.dim >= 1
       /\ InRange(argF)) =>
        IF \E k \in 1..argF.nent : IsKTo1(argF, k)
        THEN ret >= 1 /\ IsKTo1(argF, ret)
        ELSE ret = -1

\* the ANF coefficient of f at u, from the definition of the Moebius
\* transform: the parity of f over the inputs covered by u
MoebiusCoef(f, u) ==
    Cardinality({x \in DOMAIN f : BitAnd(x, u) = x /\ f[x] = 1}) % 2

Coordinate(F, c) == [x \in 0..(F.nent - 1) |-> (F.vals[x] \div Shl1(c)) % 2]

AlgebraicDegree(F) ==
    MaxOf({0} \cup {PopCount(u) : u \in
              {w \in 0..(F.nent - 1) :
                  \E c \in 0..(F.dim - 1) : MoebiusCoef(Coordinate(F, c), w) = 1}})

\* C10: function_algebraic_degree returns the largest Hamming weight of an
\* index whose ANF coefficient is 1 in some coordinate function, and 0 when
\* there is none.
C10_AlgebraicDegree ==
    (pc = "idle" /\ entry = "algebraic_degree" /\ IsTable(argF) /\ argF.dim >= 1) =>
        ret = AlgebraicDegree(argF)

\* the number of x with F(x) ^ F(x ^ a) = b
Solutions(F, a, b) ==
    Cardinality({x \in 0..(F.nent - 1) :
                    BitXor(F.vals[x], F.vals[BitXor(x, a)]) = b})

\* the differential uniformity, from its definition
DiffUniformity(F) ==
    MaxOf({Solutions(F, ab[1], ab[2]) :
              ab \in (1..(F.nent - 1)) \X (0..(F.nent - 1))})

\* C11: for a table of dimension n >= 1 with entries below 2^n,
\* function_differential_uniformity returns the maximum over a != 0 and b
\* of the number of x with F(x) ^ F(x ^ a) = b, and function_is_apn returns
\* true exactly when that maximum is 2.
C11_DifferentialUniformity ==
    (pc = "idle" /\ IsTable(argF) /\ argF.dim >= 1 /\ InRange(argF)) =>
        /\ entry = "differential_uniformity" => ret = DiffUniformity(argF)
        /\ entry = "is_apn" => ret = (DiffUniformity(argF) = 2)

\* an APN function of dimension 3 is recognised
C11_Witness ==
    /\ pc = "idle"
    /\ entry = "is_apn"
    /\ IsTable(argF)
    /\ argF.dim = 3
    /\ ret = TRUE

\* C12 as stated: for n >= 2 the value function_differential_uniformity
\* returns is even, divides 2^n and is at least 2.
C12_EvenDivisor ==
    (pc = "idle" /\ entry = "differential_uniformity" /\ IsTable(argF)
       /\ argF.dim >= 2 /\ InRange(argF)) =>
        /\ ret % 2 = 0
        /\ argF.nent % ret = 0
        /\ ret >= 2

\* C12, amended: for n >= 2 the value function_differential_uniformity
\* returns is even, at least 2 and at most 2^n.
C12_EvenBounded ==
    (pc = "idle" /\ entry = "differential_uniformity" /\ IsTable(argF)
       /\ argF.dim >= 2 /\ InRange(argF)) =>
        /\ ret % 2 = 0
        /\ ret >= 2
        /\ ret <= argF.nent

\* a uniformity that does not divide 2^n is returned
C12_Witness ==
    /\ pc = "idle"
    /\ entry = "differential_uniformity"
    /\ IsTable(argF)
    /\ argF.dim = 3
    /\ InRange(argF)
    /\ ret = 6

\* P is irreducible of degree n: no polynomial of degree 1 .. n-1 divides it
Irreducible(P, n) ==
    /\ P >= Shl1(n) /\ P < Shl1(n + 1)
    /\ \A q \in 2..(Shl1(n) - 1) : PolyMod(P, q, Degree(q)) # 0

\* x generates the multiplicative group of GF(2)[x]/P
Primitive(P, n) ==
    Irreducible(P, n) /\
    (n = 1 \/ Cardinality({FieldPow(P, n)[2][d] : d \in 1..(Shl1(n) - 1)}) = Shl1(n) - 1)

\* F is not constant and F(x) = a * x^d ^ b in GF(2)[x]/P for some a, b
\* and d in 0 .. 2^n - 2
IsMonomial(F, P) ==
    LET N == F.nent
        mulT == FieldMul(P, F.dim)
        powT == FieldPow(P, F.dim)
    IN  /\ \E x \in 0..(N - 1) : F.vals[x] # F.vals[0]
        /\ \E d \in 0..(N - 2) : \E a \in 0..(N - 1) : \E b \in 0..(N - 1) :
              \A x \in 0..(N - 1) :
                  F.vals[x] = BitXor(mulT[a][powT[x][d + 1]], b)

MonoReturned ==
    /\ pc = "idle"
    /\ entry = "is_monomial"
    /\ IsTable(argF)
    /\ InRange(argF)
    /\ argF.dim <= 16

\* C13: for n <= 16, P irreducible of degree n and entries below 2^n,
\* function_is_monomial returns true exactly when F is not constant and
\* F(x) = a * x^d ^ b in GF(2)[x]/P for some a, b and d in 0 .. 2^n - 2.
C13_MonomialIff ==
    (MonoReturned /\ Irreducible(argF.polynomial, argF.dim)) =>
        (ret = IsMonomial(argF, argF.polynomial))

\* the same for the polynomials whose root x is a primitive element
C13_MonomialIffPrimitive ==
    (MonoReturned /\ Primitive(argF.polynomial, argF.dim)) =>
        (ret = IsMonomial(argF, argF.polynomial))

C13_Reached ==
    /\ MonoReturned
    /\ argF.dim = 4
    /\ Primitive(argF.polynomial, argF.dim)
    /\ ret = TRUE

(***************************************************************************)
(* Properties of the spectra.                                              *)
(***************************************************************************)
Parity(v) == IF v = 0 THEN 0 ELSE (Cardinality({k \in 0..Degree(v) : (v \div Shl1(k)) % 2 = 1}) % 2)

\* the values v in [1, 2^n) orthogonal to every second derivative of F at a
Orthogonals(F, a) ==
    {v \in 1..(F.nent - 1) :
        \A x \in 0..(F.nent - 1) :
            Parity(BitAnd(v, BitXor(BitXor(F.vals[0], F.vals[a]),
                                    BitXor(F.vals[x], F.vals[BitXor(x, a)])))) = 0}

SpectrumReturned == pc = "idle" /\ entry = "differential_spectrum"

\* C14: OD(0) = 0 and, for a != 0, OD(a) is the smallest v in [1, 2^n)
\* whose AND with F(0) ^ F(a) ^ F(x) ^ F(x ^ a) has even parity for every
\* x, and 0 when there is no such v.
C14_OrthoDerivative ==
    SpectrumReturned =>
        /\ ret.od.vals[0] = 0
        /\ \A a \in 1..(argF.nent - 1) :
              ret.od.vals[a] = IF Orthogonals(argF, a) = {} THEN 0
                               ELSE MinOf(Orthogonals(argF, a))

\* a function of dimension 4 with every OD(a), a != 0, found and not all
\* equal
C14_Witness ==
    /\ SpectrumReturned
    /\ argF.dim = 4
    /\ \A a \in 1..15 : ret.od.vals[a] # 0
    /\ \E a \in 1..15 : ret.od.vals[a] > 1

\* the number of x with OD(x) ^ OD(x ^ a) = c
HitCount(od, a, c) ==
    Cardinality({x \in 0..(od.nent - 1) : BitXor(od.vals[x], od.vals[BitXor(x, a)]) = c})

WeightedSum(counts, N) ==
    LET RECURSIVE upto(_)
        upto(m) == IF m < 0 THEN 0 ELSE m * counts[m] + upto(m - 1)
    IN  upto(N)

\* C15: counts[m] is the number of pairs (a, c), a in [1, 2^n), c an
\* output difference that occurs for a, with exactly m inputs x giving c;
\* the result does not depend on the previous contents of counts; the sum
\* of m * counts[m] is 2^n * (2^n - 1).
C15_OccurringDifferences ==
    SpectrumReturned =>
        LET N == argF.nent
        IN  /\ \A m \in 0..N :
                  ret.spectrum_counts[m] =
                      Cardinality({ac \in (1..(N - 1)) \X (0..(N - 1)) :
                                      /\ HitCount(ret.od, ac[1], ac[2]) >= 1
                                      /\ HitCount(ret.od, ac[1], ac[2]) = m})
            /\ WeightedSum(ret.spectrum_counts, N) = N * (N - 1)

\* C15, with every c in [0, 2^n) counted, whether it occurs for a or not
C15_AllDifferences ==
    SpectrumReturned =>
        LET N == argF.nent
        IN  /\ \A m \in 0..N :
                  ret.spectrum_counts[m] =
                      Cardinality({ac \in (1..(N - 1)) \X (0..(N - 1)) :
                                      HitCount(ret.od, ac[1], ac[2]) = m})
            /\ WeightedSum(ret.spectrum_counts, N) = N * (N - 1)

\* a call on an array that held other counts, for a function of dimension 4
\* whose differences occur with more than one multiplicity
C15_Witness ==
    /\ SpectrumReturned
    /\ argF.dim = 4
    /\ \E m \in 0..16 : argG[m] # 0
    /\ Cardinality({m \in 1..16 : ret.spectrum_counts[m] # 0}) >= 1
    /\ ret.spectrum_counts[0] # 0

(***************************************************************************)
(* Properties of the dimension-indexed constants.                          *)
(***************************************************************************)
\* the polynomials as the specification lists them for n = 2 .. 20
ListedP ==
    << 7, 13, 19, 37, 67, 131, 285, 529, 1033, 2053,
       4179, 8219, 17475, 32771, 69643, 131081, 262273, 524389, 1048585 >>

PolynomialReturned ==
    /\ pc = "idle"
    /\ entry = "get_primitive_polynomial"
    /\ argF.dim \in 2..20

\* C16: for n in [2, 20] the reduction polynomial looked up for dimension n
\* is the listed P(n) (7, 13, 19, 37, 67, ...), and its highest set bit is
\* bit n.
C16_ListedPolynomial ==
    PolynomialReturned =>
        /\ ret = ListedP[argF.dim - 1]
        /\ Degree(ret) = argF.dim

\* C16, with the values the check multiplies with: 7, 11, 19, 37, 91, 131,
\* 285, 529, 1135, 2053, 4331, 8219, 16553, 32821, 65581, 131081, 267267,
\* 524327, 1050355
C16_UsedPolynomial ==
    PolynomialReturned =>
        /\ ret = << 7, 11, 19, 37, 91, 131, 285, 529, 1135, 2053,
                    4331, 8219, 16553, 32821, 65581, 131081, 267267, 524327,
                    1050355 >>[argF.dim - 1]
        /\ Degree(ret) = argF.dim

C16_Witness == PolynomialReturned /\ argF.dim = 6 /\ ret = 91

MultiplyReturned == pc = "idle" /\ entry = "ff_multiply"

\* C17: for even n in [4, 20], beta is not 0 or 1 and beta * beta =
\* beta ^ 1; for nonzero i the values i, i * beta and i ^ i * beta are
\* three distinct nonzero elements below 2^n, and the product of each of
\* them with beta is another of the three.
C17_BetaOrderThree ==
    MultiplyReturned =>
        LET n == argF.dim
            i == argF.i
            beta == get_beta(n)
            triple == {i, ret.k, BitXor(i, ret.k)}
        IN  /\ beta \notin {0, 1}
            /\ (i = 1 => ret.k = beta /\ ret.kb = BitXor(beta, 1))
            /\ Cardinality(triple) = 3
            /\ \A v \in triple : v # 0 /\ v < Shl1(n)
            /\ {ret.k, ret.kb, ret.kxb} \subseteq triple
            /\ ret.kb \notin {i, ret.k}
            /\ ret.kxb \notin {ret.k, BitXor(i, ret.k)}
            /\ (n <= 14 => ret.k = GFMul(i, beta, get_primitive_polynomial(n), n))

\* the product with beta in dimension 20 of an element with bit 19 set
C17_Witness ==
    /\ MultiplyReturned
    /\ argF.dim = 20
    /\ argF.i >= Shl1(19)
    /\ ret.kxb = argF.i

(***************************************************************************)
(* Properties of the search.                                               *)
(***************************************************************************)
\* slot 0 is pinned and the nonzero slots of y and x mirror each other
PartialBijection(L) ==
    /\ L.y[0] = 0 /\ L.x[0] = 0
    /\ \A a \in (DOMAIN L.y) \ {0} :
          /\ L.y[a] # 0 => L.x[L.y[a]] = a
          /\ L.x[a] # 0 => L.y[L.x[a]] = a

\* a total bijection of [0, N) fixing 0, y and x inverse, additive
CompleteLinear(L, N) ==
    /\ PartialBijection(L)
    /\ \A a \in 1..(N - 1) : L.y[a] # 0 /\ L.x[a] # 0
    /\ \A u \in 0..(N - 1) : \A v \in 0..(N - 1) :
          L.y[BitXor(u, v)] = BitXor(L.y[u], L.y[v])

\* guess stands at its entry with every index 0 .. N-2 configured
AboutToSucceed ==
    /\ Running("guess", "enter")
    /\ \A i \in 0..(argF.nent - 2) : Top.fgs[argF.nent + i] # 0

\* C18: when guess finds no unconfigured index and sets the flag, L1 and L2
\* of that frame are total bijections fixing 0 with y and x inverse, are
\* additive, and L1(F(L2(x))) = G(x) for every x.
C18_SuccessIsComplete ==
    AboutToSucceed =>
        /\ CompleteLinear(Top.L1, argF.nent)
        /\ CompleteLinear(Top.L2, argF.nent)
        /\ \A x \in 0..(argF.nent - 1) :
              Top.L1.y[argF.vals[Top.L2.y[x]]] = argG.vals[x]

C18_Witness == AboutToSucceed /\ argF # argG

\* the stores of one into another: no nonzero slot of before differs in after
KeepsAssignments(before, after) ==
    \A a \in DOMAIN before.y :
        /\ before.y[a] # 0 => after.y[a] = before.y[a]
        /\ before.x[a] # 0 => after.x[a] = before.x[a]

AssignTurn == Running("assign", "loop") /\ Top.xymc < 3

\* C19: between propagation steps every live L1 and L2 has slot 0 pinned
\* and is a partial bijection, and configure and combine never overwrite
\* an existing assignment with a different value.
C19_PartialBijections ==
    /\ pc = "search" =>
          \A k \in 1..Depth :
              PartialBijection(stk[k].L1) /\ PartialBijection(stk[k].L2)
    /\ AssignTurn =>
          LET L2 == configure(Ft, Gt, Top.L2, Top.f, Top.g, Top.xymc, Top.cfg)
          IN  /\ KeepsAssignments(Top.L2, L2)
              /\ KeepsAssignments(L2, combine(L2, xgs, Top.px).l2)

\* the first part alone
C19_PinnedAndMirrored ==
    pc = "search" =>
        \A k \in 1..Depth :
            PartialBijection(stk[k].L1) /\ PartialBijection(stk[k].L2)

\* the second part for combine alone
C19_CombineKeeps ==
    AssignTurn =>
        LET L2 == configure(Ft, Gt, Top.L2, Top.f, Top.g, Top.xymc, Top.cfg)
        IN  KeepsAssignments(L2, combine(L2, xgs, Top.px).l2)

\* the second part for the first configure on an array that no earlier
\* configure of assignF has written
C19_FirstConfigureKeeps ==
    (AssignTurn /\ Top.xymc = 0 /\ ~(stk[Depth - 1].fn = "top" /\ Top.cfg = 2)) =>
        KeepsAssignments(Top.L2,
                         configure(Ft, Gt, Top.L2, Top.f, Top.g, Top.xymc, Top.cfg))

\* what the caller of the running assignF passed: its own L1, L2 and fgs
\* (test_triplicate_linear_equivalence), or the copies guess made
PassedToAssign ==
    LET N == argF.nent
        c == stk[Depth - 1]
        chk == check(Ft, Gt, N, SetLin(c.L1, Ft.t[c.f], Gt.t[c.g]),
                     [c.fgs EXCEPT ![c.pf] = Ft.t[c.f]], c.pf)
    IN  IF c.fn = "top" THEN [L1 |-> c.L1, L2 |-> c.L2, fgs |-> c.fgs]
        ELSE IF c.at = "calledA"
        THEN [L1 |-> c.L1, L2 |-> c.L2, fgs |-> [c.fgs EXCEPT ![N + c.pf] = 1]]
        ELSE [L1 |-> chk.l1, L2 |-> c.L2, fgs |-> [chk.fgs EXCEPT ![N + c.pf] = 1]]

\* assignF is about to return at line 604, the flag not set
AssignReturns == Running("assign", "loop") /\ Top.xymc >= 3 /\ ~g_equivalent

\* C20: when assignF returns without the success flag set, the L1, L2 and
\* fgs passed by the caller hold the values they held before the call.
C20_AssignRestores ==
    AssignReturns =>
        /\ Top.L1 = PassedToAssign.L1
        /\ Top.L2 = PassedToAssign.L2
        /\ Top.fgs = PassedToAssign.fgs

\* the same for L1 and fgs alone
C20_AssignRestoresL1AndFgs ==
    AssignReturns =>
        /\ Top.L1 = PassedToAssign.L1
        /\ Top.fgs = PassedToAssign.fgs

\* test_triplicate_linear_equivalence has an assignF running
TopAssignRunning == pc = "search" /\ Depth >= 2

\* the assignF that test_triplicate_linear_equivalence called runs at the
\* given level for F-row 0 and the root's G-row, with the configuration of
\* the call the top level stands at
TopAssignAt(level) ==
    TopAssignRunning =>
        /\ stk[1].fn = "top" /\ stk[1].at \in {"cfg1", "cfg2"}
        /\ stk[2].fn = "assign"
        /\ stk[2].px = level
        /\ stk[2].f = 0
        /\ stk[2].g = stk[1].g
        /\ stk[2].cfg = IF stk[1].at = "cfg1" THEN 1 ELSE 2

\* C21: the top-level loop runs assign at recursion level px = 1 for every
\* root guess (row 0 of T_F with row g of T_G), for configuration 1 and
\* for configuration 2.
C21_TopAssignLevelOne == TopAssignAt(1)

\* C21 with the level the top-level loop passes: px = 0
C21_TopAssignLevelZero == TopAssignAt(0)

\* the second configuration of a root guess other than the first
C21_Witness ==
    /\ TopAssignRunning
    /\ stk[1].at = "cfg2"
    /\ stk[1].g >= 1
    /\ stk[2].cfg = 2

\* the scalars of a frame: where it stands and what it is trying
Position(fr) == << fr.fn, fr.at, fr.f, fr.g, fr.xymc, fr.px, fr.cfg >>

\* a step that only returns: the running frame is popped and every frame
\* below stands where it stood, or the top level leaves its loop, or the
\* call returns r
OnlyReturns(r) ==
    \/ pc' = "idle" /\ ret' = r
    \/ /\ pc' = "search"
       /\ Len(stk') = Depth - 1
       /\ \A k \in 1..(Depth - 1) : Position(stk'[k]) = Position(stk[k])
       /\ xgs' = xgs
    \/ /\ pc' = "search"
       /\ Depth = 1 /\ Len(stk') = 1
       /\ stk'[1] = [stk[1] EXCEPT !.at = "exit"]
       /\ xgs' = xgs

FlagStep ==
    /\ (pc = "search" /\ ~g_equivalent) =>
          /\ flagWrites = 0
          /\ g_equivalent' => flagWrites' = 1
    /\ (pc = "search" /\ g_equivalent) =>
          /\ flagWrites = 1
          /\ flagWrites' = 1
          /\ g_equivalent'
          /\ OnlyReturns(TRUE)

\* C22: within one call, after the reset, the flag is written at most once,
\* from false to true; once it is true no configure, combine, generate or
\* check step runs and no root, configuration, xymc or G-row is tried:
\* every step pops a frame, and the call returns true.
C22_FlagWriteOnce == [][FlagStep]_vars

\* the flag is set and three frames or more have still to return
C22_Witness == pc = "search" /\ g_equivalent /\ flagWrites = 1 /\ Depth >= 3

\* L holds the one fact L(u) = v and nothing else
OneFact(L, u, v) ==
    /\ L.y = [a \in DOMAIN L.y |-> IF a = u THEN v ELSE 0]
    /\ L.x = [b \in DOMAIN L.x |-> IF b = v THEN u ELSE 0]

\* fgs holds the one guess u, flagged configured
OneGuess(fgs, N, u) ==
    fgs = [k \in DOMAIN fgs |-> IF k = 0 THEN u ELSE IF k = N THEN 1 ELSE 0]

\* the top-level state at the first assignF of the root g
CleanRoot(top, g) ==
    /\ top.f = 0 /\ top.g = g
    /\ OneFact(top.L1, Ft.t[0], Gt.t[g])
    /\ top.L2 = ZeroLin(argF.nent)
    /\ OneGuess(top.fgs, argF.nent, Ft.t[0])

RootStep ==
    \* the search starts at root 0
    /\ (pc # "search" /\ pc' = "search") =>
          stk'[1].g = 0 /\ stk'[1].at = "loop" /\ Len(stk') = 1
    /\ pc = "search" =>
        LET top == stk[1]
        IN  /\ top.f = 0
            /\ (pc' = "search" /\ Len(stk') >= 1) =>
                  /\ stk'[1].g \in {top.g, top.g + 1}
                  \* the first attempt of a root: configuration 1, clean
                  /\ (stk'[1].at = "cfg1" /\ top.at # "cfg1") =>
                        /\ top.at = "loop" /\ Depth = 1 /\ top.g < Gt.tN
                        /\ CleanRoot(stk'[1], top.g)
                        /\ Len(stk') = 2
                        /\ stk'[2] = Frame("assign", "loop", stk'[1].L1, stk'[1].L2,
                                           stk'[1].fgs, 0, top.g, 0, 0, 1)
                  \* configuration 2 only after configuration 1 gave up
                  /\ (stk'[1].at = "cfg2" /\ top.at # "cfg2") =>
                        /\ top.at = "cfg1" /\ Depth = 1 /\ ~g_equivalent
                        /\ stk'[1].g = top.g
                  \* the next root only after configuration 2 gave up
                  /\ stk'[1].g = top.g + 1 =>
                        /\ top.at = "cfg2" /\ Depth = 1 /\ ~g_equivalent
                        /\ stk'[1].at = "loop"
            \* every root exhausted: false
            /\ (pc' = "idle" /\ ~g_equivalent) =>
                  /\ top.at = "loop" /\ top.g = Gt.tN
                  /\ ret' = FALSE

\* C23: the roots g = 0, 1, ... are tried in increasing order with F-row 0,
\* each with configuration 1 and then, only if that gave up without
\* success, configuration 2; at the start of a root's configuration 1 the
\* top-level L1 holds the one fact L1(output_F(0)) = output_G(g), L2 is zero
\* and fgs holds the one entry output_F(0), flagged; when every root is
\* exhausted the call returns false.
C23_RootOrder == [][RootStep]_vars

\* the clean start of a root other than the first
C23_Witness ==
    /\ pc = "search" /\ Depth = 2
    /\ stk[1].at = "cfg1" /\ stk[1].g >= 1
    /\ stk[2].at = "loop" /\ stk[2].xymc = 0
    /\ CleanRoot(stk[1], stk[1].g)


(***************************************************************************)
(* Ownership of the search buffers.  Held(fr) is the set of buffers a      *)
(* frame has acquired and not yet released at its position: the top-level  *)
(* frame holds L1, L2, fgs and xgs for the whole search, assignF holds its *)
(* five snapshots while guess runs, guess holds l2 and fgss (derived       *)
(* guess) or l1, fgss and l2 (free guess) while assignF runs.              *)
(***************************************************************************)
Held(fr) ==
    IF fr.fn = "top" THEN TopBuffers
    ELSE IF fr.fn = "assign" /\ fr.at = "called" THEN AssignBuffers
    ELSE IF fr.fn = "guess" /\ fr.at = "calledA" THEN GuessDerivedBuffers
    ELSE IF fr.fn = "guess" /\ fr.at = "calledB"
         THEN GuessTurnBuffers \cup GuessCallBuffers
    ELSE {}

HeldByStack ==
    UNION {{<< d, l >> : l \in Held(stk[d])} : d \in 1..Len(stk)}

\* C24: every buffer acquired by assignF or guess is released exactly once
\* before the acquiring frame returns, on every exit path: at every step of
\* the search the live buffers are exactly those held by the frames still on
\* the stack, no buffer is overwritten while live and none is released twice;
\* when the search has returned no search buffer is held.
C24_BuffersBalanced ==
    /\ ~heap.lost
    /\ ~heap.twice
    /\ heap.live = IF pc = "search" THEN HeldByStack ELSE {}

\* the search is unwinding from a success found below a derived guess whose
\* buffers are still held
C24_Witness ==
    /\ pc = "search"
    /\ g_equivalent
    /\ \E d \in 1..Len(stk) : stk[d].fn = "guess" /\ stk[d].at = "calledA"
    /\ Top.fn = "assign"

(***************************************************************************)
(* The triple table and the lookup array of a triplicate.                  *)
(***************************************************************************)
\* the arrays of T are not held: never allocated, or released once
NotHeld(T) == T.st \in {"uninit", "freed"}

\* C25: the triple table and the lookup array of a canonical-triplicate
\* check are released exactly once on every exit path of both entry points,
\* and a table that was never allocated is never released: no call runs
\* into the release of an unallocated table, and when a call has returned
\* neither table is still allocated.
C25_TablesReleasedOnce ==
    /\ pc # "crashed"
    /\ pc = "idle" => NotHeld(Ft) /\ NotHeld(Gt)

\* the part of C25 that holds: when both checks succeed the two tables are
\* released once, after the search
C25_ReleasedAfterSearch ==
    (pc = "idle" /\ searched) => Ft.st = "freed" /\ Gt.st = "freed"

\* is_canonical_triplicate_c never releases an unallocated table: it stops
\* only in the out-of-range access of line 178
C25_CheckNeverReleasesUnallocated ==
    (entry = "is_ct" /\ pc = "crashed") => oob

\* a failed check that had allocated its table returns with it allocated
C25_LeakOnFailure ==
    ~(pc = "idle" /\ entry = "is_ct" /\ ret = FALSE /\ Ft.st = "leaked")

\* check_lin_eq_2x_uniform_3to1 releases a table that was never allocated
C25_ReleaseOfUnallocated ==
    ~(pc = "crashed" /\ entry = "lin_eq" /\ Ft.st = "uninit")

(***************************************************************************)
(* Array bounds in the search.                                             *)
(***************************************************************************)
\* guess is entered at most at level n/2, assignF at most at level n/2 - 1
LevelInBounds(fr) ==
    /\ fr.fn = "guess" => 2 * fr.px <= argF.dim
    /\ fr.fn = "assign" => 2 * fr.px <= argF.dim - 2

\* the largest index of xgs a frame has used: guess stores a triple at
\* 4^px - 1 .. 4^px + 1 before it calls assignF, combine stores up to
\* 4^(px+1) - 2
XgsInBounds(fr) ==
    /\ (fr.fn = "guess" /\ fr.at \in {"calledA", "calledB"}) =>
           Shl1(2 * fr.px) + 1 < argF.nent
    /\ fr.fn = "assign" => Shl1(2 * (fr.px + 1)) - 2 < argF.nent

\* the guesses of a frame: at most N - 1, nonzero, pairwise distinct, each
\* with an image under the frame's L1
FgsInBounds(fr) ==
    LET cnt == CountGuesses(fr.fgs)
    IN  /\ cnt <= argF.nent - 1
        /\ \A i \in 0..(cnt - 1) :
              /\ fr.fgs[i] # 0
              /\ fr.L1.y[fr.fgs[i]] # 0
              /\ \A j \in 0..(i - 1) : fr.fgs[j] # fr.fgs[i]

\* the top level between two roots: lines 651-652 have withdrawn the root
\* guess from L1 and line 634 has not yet made the next one
BetweenRoots(fr) == fr.fn = "top" /\ fr.at \in {"loop", "exit"}

\* guess about to derive the rows from an entry fgs[pf] # 0
DerivedGuess(fr) ==
    /\ fr.fn = "guess" /\ fr.at = "enter"
    /\ \E i \in 0..(argF.nent - 2) : fr.fgs[argF.nent + i] = 0
    /\ fr.fgs[MinOf({i \in 0..(argF.nent - 2) : fr.fgs[argF.nent + i] = 0})] # 0

LookupsInBounds(fr) ==
    /\ DerivedGuess(fr) =>
          LET pf == MinOf({i \in 0..(argF.nent - 2) : fr.fgs[argF.nent + i] = 0})
          IN  /\ Ft.ol[fr.fgs[pf]] # 0
              /\ Gt.ol[fr.L1.y[fr.fgs[pf]]] # 0
    /\ (fr.fn = "guess" /\ fr.at = "loopB" /\ fr.g < Gt.tN) => fr.f < Ft.tN

\* C26: during a search on two canonical triplicates every array access
\* stays in bounds: guess is never entered above level n/2 and assignF never
\* above n/2 - 1, every index of xgs used is below N, fgs holds at most
\* N - 1 guesses, nonzero, pairwise distinct and each with an L1 image, a
\* derived guess finds both its values in the lookup arrays, and a free
\* guess with a row g < tN has a row f < tN.
C26_InBounds ==
    pc = "search" =>
        /\ ~oob
        /\ \A d \in 1..Len(stk) :
              /\ LevelInBounds(stk[d])
              /\ XgsInBounds(stk[d])
              /\ BetweenRoots(stk[d]) \/ FgsInBounds(stk[d])
              /\ LookupsInBounds(stk[d])

\* guess entered at level n/2, below a derived guess and a free guess that
\* have stored their triples in xgs
C26_Witness ==
    /\ pc = "search"
    /\ argF.dim = 6
    /\ Top.fn = "guess" /\ Top.at = "enter" /\ 2 * Top.px = argF.dim
    /\ \E d \in 1..Len(stk) : stk[d].fn = "guess" /\ stk[d].at = "calledA"
    /\ \E d \in 1..Len(stk) : stk[d].fn = "guess" /\ stk[d].at = "calledB"

(***************************************************************************)
(* Termination of check_lin_eq_2x_uniform_3to1.                            *)
(***************************************************************************)
\* assignF calls guess one level up, guess calls assignF at its own level,
\* and the stack is no deeper than the n + 1 frames this allows
LevelsGrow ==
    /\ Len(stk) <= argF.dim + 1
    /\ \A d \in 1..(Len(stk) - 1) :
          /\ stk[d].fn \in {"top", "assign"} =>
                stk[d + 1].fn = IF stk[d].fn = "top" THEN "assign" ELSE "guess"
          /\ stk[d].fn = "guess" => stk[d + 1].fn = "assign"
          /\ stk[d + 1].px = IF stk[d].fn = "assign" THEN stk[d].px + 1
                             ELSE stk[d].px

\* the loop variables stay within their ranges
LoopsBounded ==
    \A d \in 1..Len(stk) :
        /\ stk[d].xymc <= 3
        /\ stk[d].g <= Gt.tN
        /\ stk[d].f <= Ft.tN

\* the canonical triplicates among the inputs of the calls
CanonicalInputs == {F \in EqInputs \cup FairInputs : ValidCT(F)}

ValidPairRunning ==
    /\ entry = "lin_eq" /\ pc \notin {"idle", "crashed"}
    /\ argF \in CanonicalInputs /\ argG \in CanonicalInputs
    /\ argF.dim = argG.dim

SearchReturned ==
    /\ entry = "lin_eq" /\ pc = "idle" /\ searched
    /\ ret \in BOOLEAN /\ ret = g_equivalent

\* C27: check_lin_eq_2x_uniform_3to1 terminates on every pair of canonical
\* triplicates of the same dimension: the recursion assignF -> guess ->
\* assignF strictly increases px and is bounded in depth, the loop variables
\* stay in their ranges, and the call eventually returns, true with the flag
\* set or false with the roots exhausted.
C27_Terminates ==
    /\ [](pc = "search" => LevelsGrow /\ LoopsBounded)
    /\ (ValidPairRunning ~> SearchReturned)

\* a search that has exhausted every root and returned false
C27_Witness ==
    /\ entry = "lin_eq" /\ pc = "idle" /\ searched
    /\ argF \in CanonicalInputs /\ argG \in CanonicalInputs
    /\ ret = FALSE

====
